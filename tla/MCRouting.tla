---------------------------- MODULE MCRouting ----------------------------
(* Four rules of one branch: the wildcard, one for the item, one for the      *)
(* channel, one for the order type; any may be on, any station may be closed.   *)
EXTENDS StationRouting

Rule(n, i, c, t, s) == [id |-> n, item |-> i, channel |-> c, type |-> t, weight |-> 0, station |-> s]
MCRules == {Rule(1, "any", "any", "any", "pass"), Rule(2, "burger", "any", "any", "grill"),
            Rule(3, "any", "app", "any", "packing"), Rule(4, "any", "any", "dine_in", "pass")}
MCContexts == {[item |-> i, channel |-> c, type |-> t] :
                 i \in {"burger", "tea"}, c \in {"app", "counter"}, t \in {"dine_in", "takeaway"}}
============================================================================
