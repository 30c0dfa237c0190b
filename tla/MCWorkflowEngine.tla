-------------------------- MODULE MCWorkflowEngine --------------------------
(* Small workflows for TLC.                                                *)
EXTENDS WorkflowEngine, TLC

To(a, b) == [from |-> a, to |-> b, branch |-> "none"]
OnTrue(a, b) == [from |-> a, to |-> b, branch |-> "true"]
OnFalse(a, b) == [from |-> a, to |-> b, branch |-> "false"]

(* A workflow whose nodes use nothing, do one item, and are never retried  *)
(* nor timed, except where said.                                           *)
Plain(kind, edges) ==
    [nodes |-> DOMAIN kind, kind |-> kind, edges |-> edges, timed |-> {},
     uses |-> [n \in DOMAIN kind |-> {}], items |-> [n \in DOMAIN kind |-> 1],
     retries |-> [n \in DOMAIN kind |-> 0]]
Using(w, n, ms) == [w EXCEPT !.uses[n] = ms]
Retrying(w, n, k) == [w EXCEPT !.retries[n] = k]
Looping(w, n, k) == [w EXCEPT !.items[n] = k]
Timed(w, ms) == [w EXCEPT !.timed = ms]

(* README.md's picture: two branches of a condition that join again, with  *)
(* and without a receipt that names one branch.                            *)
Branching ==
    Retrying(Plain(("fetch" :> "http") @@ ("gate" :> "condition") @@ ("settle" :> "onchain")
                     @@ ("log" :> "transform") @@ ("receipt" :> "transform"),
                   {To("fetch", "gate"), OnTrue("gate", "settle"), OnFalse("gate", "log"),
                    To("settle", "receipt"), To("log", "receipt")}), "fetch", 1)
OneSidedReceipt == Using(Branching, "receipt", {"settle"})

(* A fan-out and its join: a call with a timeout and a retry, a loop of    *)
(* two calls with both, a call without either.                             *)
FanOut ==
    Using(Looping(Timed(Retrying(Retrying(
      Plain(("start" :> "trigger") @@ ("call" :> "http") @@ ("each" :> "loop")
              @@ ("pay" :> "onchain") @@ ("join" :> "transform"),
            {To("start", "call"), To("start", "each"), To("start", "pay"),
             To("call", "join"), To("each", "join"), To("pay", "join")}),
      "call", 1), "each", 1), {"call", "each"}), "each", 2), "join", {"call", "each"})

(* A condition without a false edge beside an independent branch, and a    *)
(* second condition behind the first.                                      *)
Halting ==
    Plain(("gate" :> "condition") @@ ("inner" :> "condition") @@ ("after" :> "transform")
            @@ ("aside" :> "http") @@ ("last" :> "delay"),
          {To("gate", "inner"), OnFalse("inner", "after"), OnTrue("inner", "last"),
           To("aside", "last")})

(* A short branch and a long one that meet again.                          *)
Uneven ==
    Retrying(Plain(("a" :> "http") @@ ("b" :> "delay") @@ ("c" :> "http") @@ ("d" :> "onchain"),
                   {To("b", "c"), To("a", "d"), To("c", "d")}), "c", 1)

(* A node that names the output of one running beside it.                  *)
Beside ==
    Retrying(Using(Plain(("a" :> "http") @@ ("b" :> "transform"), {}), "b", {"a"}), "b", 2)

(* More nodes than the guard lets a run start.                             *)
Runaway ==
    Plain([i \in 1 .. 6 |-> IF i = 1 THEN "trigger" ELSE "transform"],
          {To(1, i) : i \in 2 .. 4} \cup {To(i, 5) : i \in 3 .. 4} \cup {To(5, 6)})

AllTimed == {Timed(w, w.nodes) : w \in {Branching, Uneven, Beside}}

Several == {Branching, OneSidedReceipt, FanOut, Halting, Uneven, Beside, Runaway}
             \cup AllTimed

=============================================================================
