----------------------------- MODULE Connections -----------------------------
(***************************************************************************)
(* The life of a pooled connection under withTenantContext: it is lent,     *)
(* bound to a tenant for one transaction, cleaned and returned, or          *)
(* destroyed.  Any statement may be answered with an error, and the         *)
(* connection may die under any of them, the statement carried out or not.  *)
(* The work of a call may itself call withTenantContext (a permission check, *)
(* a manager's challenge), which asks the pool for a second connection while *)
(* the first stays lent.                                                     *)
(***************************************************************************)
EXTENDS Integers

CONSTANTS
  Calls,     \* calls of withTenantContext that may be in flight
  PoolMax    \* connections of the pool

VARIABLES
  client,   \* the connections: whether there, who has them, the state of the session
  call      \* the calls

vars == <<client, call>>

Fresh(there) == [there |-> there, by |-> {}, tx |-> "none", bound |-> FALSE, dead |-> FALSE]
Absent == Fresh(FALSE)
Idle   == Fresh(TRUE)
NewCall == [pc |-> "idle", answer |-> "none", destroy |-> FALSE, committed |-> FALSE, broken |-> FALSE,
            outer |-> {}]       \* the call that waits for this one

Init ==
  /\ client = [k \in 1 .. PoolMax |-> Absent]
  /\ call = [c \in Calls |-> NewCall]

(* Answers to a statement: done, refused (an error that a retry may cure,   *)
(* or another), or none because the connection died before or after it.     *)
Replies == {"ok", "conflict", "error", "died before", "died after"}
Failed(reply) == reply # "ok"
Carried(reply) == reply \in {"ok", "died after"}
Died(reply) == reply \in {"died before", "died after"}

Of(c) == CHOOSE k \in DOMAIN client : c \in client[k].by

(* A dead connection answers nothing.  An error inside a transaction aborts *)
(* it; DISCARD ALL is refused inside one, and BEGIN, COMMIT and ROLLBACK    *)
(* are not refused for a conflict unless they are the COMMIT.               *)
CanReply(stmt, session, reply) ==
  /\ session.dead => reply = "died before"
  /\ stmt = "DISCARD ALL" /\ session.tx # "none" => reply \notin {"ok", "died after"}
  /\ reply = "conflict" => stmt \in {"work", "COMMIT"}
  /\ stmt = "COMMIT" /\ session.tx = "aborted" => reply # "died after"

(* The session after a statement. *)
After(stmt, session, reply) ==
  LET done == CASE stmt = "BEGIN" -> [session EXCEPT !.tx = "open"]
                [] stmt = "bind" -> [session EXCEPT !.bound = TRUE]
                [] stmt \in {"COMMIT", "ROLLBACK"} -> [session EXCEPT !.tx = "none", !.bound = FALSE]
                [] OTHER -> session
      kept == IF Carried(reply) THEN done
              ELSE IF stmt = "COMMIT" THEN [session EXCEPT !.tx = "none", !.bound = FALSE]
              ELSE IF session.tx = "open" THEN [session EXCEPT !.tx = "aborted"] ELSE session
  IN [kept EXCEPT !.dead = @ \/ Died(reply)]

Statement(c, stmt, reply) ==
  LET k == Of(c)
  IN /\ CanReply(stmt, client[k], reply)
     /\ client' = [client EXCEPT ![k] = After(stmt, @, reply)]

(* The call moves on; it remembers how its connection fared. *)
Move(c, to, reply) == call' = [call EXCEPT ![c] = [to EXCEPT !.broken = @ \/ Died(reply)]]

(* Only a conflict that was rolled back is passed on as one to retry. *)
mapPostgresError(reply) == IF reply = "conflict" THEN "retry" ELSE "error"

Free(c) == call[c].pc \in {"idle", "answered"} /\ call[c].outer = {}

(* A call waits for a connection ...                                        *)
Start(c) ==
  /\ Free(c)
  /\ call' = [call EXCEPT ![c] = [NewCall EXCEPT !.pc = "connect"]]
  /\ UNCHANGED client

(* ... gets an idle one, or a new one while the pool has room ...           *)
Connect(c, k) ==
  /\ call[c].pc = "connect"
  /\ client[k].by = {}
  /\ client' = [client EXCEPT ![k].there = TRUE, ![k].by = {c}]
  /\ call' = [call EXCEPT ![c].pc = "begin"]

(* ... or gives up after connectionTimeoutMillis. *)
ConnectTimeout(c) ==
  /\ call[c].pc = "connect"
  /\ call' = [call EXCEPT ![c].pc = "answered", ![c].answer = "error"]
  /\ UNCHANGED client

Begin(c, reply) ==
  /\ call[c].pc = "begin"
  /\ Statement(c, "BEGIN", reply)
  /\ Move(c, IF Failed(reply) THEN [call[c] EXCEPT !.pc = "discard", !.answer = "error"]
             ELSE [call[c] EXCEPT !.pc = "bind"], reply)

(* The timeouts and the tenant are set; an unknown or suspended tenant is   *)
(* refused inside the transaction.                                          *)
Bind(c, reply, refused) ==
  /\ call[c].pc = "bind"
  /\ Statement(c, "bind", reply)
  /\ Move(c, IF Failed(reply) \/ refused
             THEN [call[c] EXCEPT !.pc = "rollback", !.answer = mapPostgresError(reply)]
             ELSE [call[c] EXCEPT !.pc = "work"], reply)

(* fn may make a call of its own, on another connection, and waits for it    *)
(* (bound: one such call, itself without any) ...                            *)
Nest(c, d) ==
  /\ call[c].pc = "work" /\ call[c].outer = {}
  /\ Free(d)
  /\ call' = [call EXCEPT ![c].pc = "nested", ![d] = [NewCall EXCEPT !.pc = "connect", !.outer = {c}]]
  /\ UNCHANGED client

(* ... and passes on its error, the timeout of the pool among them.          *)
Resume(c, d) ==
  /\ call[c].pc = "nested"
  /\ call[d].pc = "answered" /\ call[d].outer = {c}
  /\ call' = [call EXCEPT ![c] = IF call[d].answer = "done" THEN [@ EXCEPT !.pc = "resumed"]
                                 ELSE [@ EXCEPT !.pc = "rollback", !.answer = call[d].answer],
                          ![d].outer = {}]
  /\ UNCHANGED client

(* fn, which passes on any error of its statements. *)
Work(c, reply) ==
  /\ call[c].pc \in {"work", "resumed"}
  /\ Statement(c, "work", reply)
  /\ Move(c, IF Failed(reply) THEN [call[c] EXCEPT !.pc = "rollback", !.answer = mapPostgresError(reply)]
             ELSE [call[c] EXCEPT !.pc = "commit"], reply)

Commit(c, reply) ==
  /\ call[c].pc = "commit"
  /\ Statement(c, "COMMIT", reply)
  /\ Move(c, [call[c] EXCEPT !.pc = IF Failed(reply) THEN "rollback" ELSE "discard",
                            !.answer = IF Failed(reply) THEN mapPostgresError(reply) ELSE "done",
                            !.committed = Carried(reply)], reply)

(* A connection whose ROLLBACK failed is destroyed. *)
Rollback(c, reply) ==
  /\ call[c].pc = "rollback"
  /\ Statement(c, "ROLLBACK", reply)
  /\ Move(c, IF Failed(reply) THEN [call[c] EXCEPT !.pc = "discard", !.answer = "error", !.destroy = TRUE]
             ELSE [call[c] EXCEPT !.pc = "discard"], reply)

(* Slip: the connection goes back whatever DISCARD ALL answered. *)
discardAndReleaseAlways(c, reply) ==
  LET k == Of(c)
  IN /\ call[c].pc = "discard"
     /\ CanReply("DISCARD ALL", client[k], reply)
     /\ client' = [client EXCEPT ![k] = [After("DISCARD ALL", @, reply) EXCEPT !.by = {}]]
     /\ Move(c, [call[c] EXCEPT !.pc = "answered"], reply)

(* Slip: a connection that cannot be cleaned is not released. *)
discardAndReleaseClean(c, reply) ==
  LET k == Of(c)
  IN /\ call[c].pc = "discard"
     /\ CanReply("DISCARD ALL", client[k], reply)
     /\ client' = IF Failed(reply) THEN client ELSE [client EXCEPT ![k].by = {}]
     /\ Move(c, [call[c] EXCEPT !.pc = "answered"], reply)

(* The only way back: a clean connection returns to the pool, any other is  *)
(* destroyed and makes room for a new one.                                  *)
discardAndRelease(c, reply) ==
  LET k == Of(c)
  IN /\ call[c].pc = "discard"
     /\ CanReply("DISCARD ALL", client[k], reply)
     /\ client' = [client EXCEPT ![k] = IF Failed(reply) \/ call[c].destroy THEN Absent
                                        ELSE [@ EXCEPT !.by = {}]]
     /\ Move(c, [call[c] EXCEPT !.pc = "answered", !.destroy = FALSE, !.broken = @ \/ Failed(reply),
                               !.answer = IF Failed(reply) THEN "error" ELSE @], reply)

Step(c) ==
  \E reply \in Replies :
    \/ Begin(c, reply) \/ Work(c, reply) \/ Commit(c, reply) \/ Rollback(c, reply)
    \/ discardAndRelease(c, reply)
    \/ \E refused \in BOOLEAN : Bind(c, reply, refused)

Lend(c) == \E k \in DOMAIN client : Connect(c, k)

Return(c) == \E d \in Calls : Resume(c, d)

Next == \E c \in Calls :
  \/ Start(c) \/ Lend(c) \/ ConnectTimeout(c) \/ Step(c) \/ Return(c)
  \/ \E d \in Calls : Nest(c, d)

Spec == Init /\ [][Next]_vars

-----------------------------------------------------------------------------
(* Properties *)

(* No transaction, tenant binding or dead socket is handed from one call to *)
(* the next, whichever statements of the first one failed.                  *)
IdleIsClean == \A k \in DOMAIN client : client[k].there /\ client[k].by = {} => client[k] = Idle

(* A call that returns has committed; one that asks for a retry has not;    *)
(* and an error after a COMMIT that was carried out is given only when the  *)
(* connection died or could not be cleaned.                                 *)
AnswerTellsCommit ==
  \A c \in Calls : call[c].pc = "answered" =>
    /\ call[c].answer = "done" => call[c].committed
    /\ call[c].answer = "retry" => ~call[c].committed
    /\ call[c].answer = "error" /\ call[c].committed => call[c].broken

(* No path leaks a connection, and calls that hold one connection and wait   *)
(* for another do not hold on for ever: whatever fails, every call is        *)
(* answered and every connection lent comes back or is destroyed.  On a pool *)
(* whose connections are all lent to waiting calls it is connectionTimeout-  *)
(* Millis that ends the wait.                                                *)
CallAnswered(c) == call[c].pc = "connect" ~> call[c].pc = "answered"
OnLoan(k) == k \in DOMAIN client /\ client[k].by # {}
ConnectionReturns(k) == OnLoan(k) ~> ~OnLoan(k)
=============================================================================
