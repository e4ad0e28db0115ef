----------------------------- MODULE SagaRouting ----------------------------
(***************************************************************************)
(* What Saga asks of an application: conditions on the routing of its      *)
(* steps (Register, NewRouting, the arguments of StartSagaWithSteps).  The *)
(* library checks none of them; each property of Saga that is proved for   *)
(* every application is proved for those that meet the conditions it       *)
(* needs.                                                                  *)
(***************************************************************************)
EXTENDS Saga

\* The steps of the saga: those of the handlers and those of the start.
Used == {Registered[t] : t \in DOMAIN Registered}
        \cup {StartSteps[i] : i \in DOMAIN StartSteps}

\* Step p sends a success, or a failure, to a step named n.
Forward(p, n) == \E t \in p.next \cap DOMAIN Registered : Registered[t].name = n
Back(p, n) == \E t \in p.error \cap DOMAIN Registered : Registered[t].name = n

-----------------------------------------------------------------------------
\* Every step has one place in the saga: at most one step sends it successes
\* and at most one failures, a step of the start is given its input by
\* StartSagaWithSteps only, and it occurs there once.
OnePlace ==
    /\ \A p, q \in Used, n \in StepNames :
          \/ Forward(p, n) /\ Forward(q, n)
          \/ Back(p, n) /\ Back(q, n)
          => p.name = q.name
    /\ \A p \in Used, i \in DOMAIN StartSteps : ~Forward(p, StartSteps[i].name)
    /\ \A i, j \in DOMAIN StartSteps : StartSteps[i].name = StartSteps[j].name => i = j

-----------------------------------------------------------------------------
\* The messages step p may lead to.
EventsOf(p) ==
    {[saga |-> Saga, from |-> p.name, type |-> "execute", step |-> Registered[t]] :
        t \in p.next \cap DOMAIN Registered}
    \cup
    {[saga |-> Saga, from |-> p.name, type |-> "failed", step |-> Registered[t]] :
        t \in p.error \cap DOMAIN Registered}

\* The inputs StartSagaWithSteps hands from a step that wrote events to the next.
HandedOn ==
    {[saga |-> Saga, from |-> StartSteps[i - 1].name, type |-> "execute",
      step |-> StartSteps[i]] :
        i \in {j \in 2 .. Len(StartSteps) : StartSteps[j - 1].next # {}}}

Claimable == (UNION {EventsOf(p) : p \in Used}) \cup HandedOn

\* The inbox key tells the messages of a service apart: no two that differ
\* come from the same step; and the start's local steps, whose results keep
\* the sender of their input, come first.
KeysTellApart ==
    /\ \A m, n \in Claimable : m.from = n.from /\ Here(m) = Here(n) => m = n
    /\ \A i, j \in DOMAIN StartSteps :
          i < j /\ StartSteps[j].next = {} => StartSteps[i].next = {}

-----------------------------------------------------------------------------
\* The routing goes along the chain: successes to the next step, failures to
\* the one before, and so does the start, whose steps beyond the first of the
\* chain write events (one that does not cannot tell its turn, see
\* StartStopsAtFailure).
AlongChain ==
    /\ \A i, j \in DOMAIN Chain : Chain[i] = Chain[j] => i = j
    /\ \A p \in Used, i \in DOMAIN Chain :
          /\ Forward(p, Chain[i]) => i = 1 \/ p.name = Chain[i - 1]
          /\ Back(p, Chain[i]) => i < Len(Chain) /\ p.name = Chain[i + 1]
    /\ \A i \in DOMAIN Chain, j \in DOMAIN StartSteps :
          i > 1 /\ StartSteps[j].name = Chain[i] =>
              /\ j > 1 /\ StartSteps[j - 1].name = Chain[i - 1]
              /\ StartSteps[j].next # {}

-----------------------------------------------------------------------------
\* A start whose steps, but for the first, write events, occur once and are
\* told by no other step: the empty message that follows a failure has no saga
\* id, and a step that needs one to write events cannot take effect with it.
StartWritesEvents ==
    /\ \A i, j \in DOMAIN StartSteps : StartSteps[i].name = StartSteps[j].name => i = j
    /\ \A i \in 2 .. Len(StartSteps) :
          /\ StartSteps[i].next # {}
          /\ \A p \in Used : ~Forward(p, StartSteps[i].name)

=============================================================================
