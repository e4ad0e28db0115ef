------------------------------- MODULE MCSaga -------------------------------
(***************************************************************************)
(* Small instances of Saga for TLC: a shop checks, orders and bills in one *)
(* call of StartSagaWithSteps; the bank is paid and the depot ships.       *)
(***************************************************************************)
EXTENDS Saga

CONSTANT g1

MCStepNames == {"check", "order", "bill", "pay", "ship"}
MCTopics == {"audit", "toCheck", "toOrder", "toBill", "toPay", "toShip"}
MCServices == {"shop", "bank", "depot"}

MCServiceOf == [n \in MCStepNames |-> CASE n = "pay" -> "bank"
                                        [] n = "ship" -> "depot"
                                        [] OTHER -> "shop"]

Step(name, next, error, onError) ==
    [name |-> name, next |-> next, error |-> error, onError |-> onError,
     onCompensateError |-> FALSE, retry |-> NoPolicy]

StepCheck == Step("check", {}, {}, FALSE)
StepOrder == Step("order", {"audit"}, {}, FALSE)
StepBill == Step("bill", {"toPay"}, {"toOrder"}, FALSE)
StepPay == Step("pay", {"toShip"}, {"toBill"}, TRUE)
StepShip == Step("ship", {}, {"toPay"}, FALSE)

\* The second of two steps that write no events
LocalOrder == [StepOrder EXCEPT !.next = {}]

\* An order whose failure and compensation are told to check
ToldOrder == [StepOrder EXCEPT !.error = {"toCheck"}]

MCSteps == {StepCheck, StepOrder, LocalOrder, ToldOrder, StepBill, StepPay, StepShip}

\* Another team's service listens to audit.
Register(order) == [t \in MCTopics \ {"audit"} |->
    CASE t = "toCheck" -> StepCheck [] t = "toOrder" -> order
      [] t = "toBill" -> StepBill [] t = "toPay" -> StepPay
      [] t = "toShip" -> StepShip]

MCRegistered == Register(StepOrder)
ToldRegistered == Register(ToldOrder)

WholeStart == <<StepCheck, StepOrder, StepBill>>
ToldStart == <<StepCheck, ToldOrder, StepBill>>
ShortStart == <<StepBill>>
LocalStart == <<StepCheck, LocalOrder>>

\* check is undone by nobody: it stands before the chain.
WholeChain == <<"order", "bill", "pay", "ship">>
ShortChain == <<"bill", "pay", "ship">>

=============================================================================
