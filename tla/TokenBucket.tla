----------------------------- MODULE TokenBucket ------------------------------
(***************************************************************************)
(* rate_limit::TokenBucket and its one caller: the reader thread for the   *)
(* read bucket (consume_blocking), the main task of `backup` for the write *)
(* bucket (consume; the two bodies are the same but for the sleep).        *)
(*                                                                         *)
(* Time is counted in ticks, the unit a Duration is rounded to.  Tokens    *)
(* are counted in fractions: a byte, and an operation, is worth Second     *)
(* tokens, so that one tick refills exactly Rate[k] tokens and the burst,  *)
(* one second of the rate, is Rate[k] * Second.                            *)
(***************************************************************************)
EXTENDS Integers

CONSTANTS
    Rate,           \* Rate["byte"], Rate["iop"] per second; 0 stands for None
    Second,         \* ticks in a second
    MinWait,        \* the 5 ms of the retry loop
    MaxWait,        \* its 0.5 s
    Requests,       \* sizes of the requests in bytes
    MaxRequest,     \* the largest of them
    MaxIdle         \* bound on the ticks the caller is away

Kind == {"byte", "iop"}

(* `new` refuses a rate of zero.  With no limit at all `consume` returns   *)
(* at once and there is nothing to say.                                    *)
ASSUME TokenBucketAssumption ==
    /\ Rate \in [Kind -> Nat]
    /\ \E k \in Kind : Rate[k] > 0
    /\ Second \in Nat \ {0}
    /\ MinWait \in Nat \ {0}
    /\ MaxWait \in Nat \ {0}
    /\ MaxRequest \in Nat
    /\ Requests \subseteq 0..MaxRequest
    /\ MaxIdle \in Nat

VARIABLES
    tokens,         \* byte_tokens and iop_tokens
    dt,             \* ticks since `last`
    pc,             \* where the caller is
    nbytes,         \* the request it makes
    due,            \* ticks its sleep still lasts
    credit          \* history: what may still be let through, see Tick

vars == <<tokens, dt, pc, nbytes, due, credit>>

Least(x, y) == IF x <= y THEN x ELSE y
Greatest(x, y) == IF x >= y THEN x ELSE y

Limited == {k \in Kind : Rate[k] > 0}
Burst(k) == Rate[k] * Second

(* What a request of n bytes is charged; nothing where there is no limit.  *)
CostOf(k, n) == IF Rate[k] = 0 THEN 0 ELSE IF k = "byte" THEN n * Second ELSE Second
Cost(k) == CostOf(k, nbytes)
MaxCost(k) == CostOf(k, MaxRequest)

(* The tokens, were they refilled now; they may exceed the burst.          *)
Virtual(k) == tokens[k] + Rate[k] * dt

TypeOK ==
    /\ tokens \in [Kind -> Int]
    /\ \A k \in Kind : -MaxCost(k) <= tokens[k] /\ tokens[k] <= Burst(k)
    /\ dt \in Nat
    /\ pc \in {"idle", "loop", "iop", "return"}
    /\ nbytes \in 0..MaxRequest
    /\ due \in Nat
    /\ credit \in [Kind -> Int]

(* A full bucket.                                                          *)
Init ==
    /\ tokens = [k \in Kind |-> Burst(k)]
    /\ dt = 0
    /\ pc = "idle"
    /\ nbytes = 0
    /\ due = 0
    /\ credit = [k \in Kind |-> Burst(k)]

-----------------------------------------------------------------------------
(* Mutants of Refilled: no cap; only whole seconds count.                  *)
RefilledUncapped(k) == Virtual(k)
RefilledWholeSeconds(k) == Least(Burst(k), tokens[k] + Rate[k] * Second * (dt \div Second))

(* refill, at the head of every turn of the loop; `last` becomes now.      *)
Refilled(k) == Least(Burst(k), Virtual(k))

(* Mutant of Ready: one of the two is enough.                              *)
ReadyEither == \E k \in Kind : Refilled(k) >= 0

Ready == \A k \in Kind : Refilled(k) >= 0

(* Mutant of Sleeps: no sleep for a debt.                                  *)
SleepsNever(k, t) == {0}

(* How long a debt of k is slept for, if t tokens are left: its seconds,   *)
(* rounded to a tick up or down.                                           *)
Sleeps(k, t) ==
    IF t >= 0 THEN {0}
    ELSE {d \in 0..-t : (d - 1) * Rate[k] < -t /\ -t < (d + 1) * Rate[k]}

Consume(n) ==
    /\ pc = "idle"
    /\ pc' = "loop"
    /\ nbytes' = n
    /\ UNCHANGED <<tokens, dt, due, credit>>

(* Mutant of Admit: `last` is not moved.                                   *)
AdmitLastKept ==
    /\ pc = "loop" /\ due = 0
    /\ Ready
    /\ tokens' = [byte |-> Refilled("byte") - Cost("byte"), iop |-> Refilled("iop")]
    /\ due' \in Sleeps("byte", tokens'["byte"])
    /\ pc' = "iop"
    /\ UNCHANGED <<dt, nbytes, credit>>

(* The request is let in, on credit: the bytes are paid for first, and the *)
(* byte debt is slept off.                                                 *)
Admit ==
    /\ pc = "loop" /\ due = 0
    /\ Ready
    /\ tokens' = [byte |-> Refilled("byte") - Cost("byte"), iop |-> Refilled("iop")]
    /\ dt' = 0
    /\ due' \in Sleeps("byte", tokens'["byte"])
    /\ pc' = "iop"
    /\ UNCHANGED <<nbytes, credit>>

(* An earlier debt is not quite paid: its sleep was rounded down.          *)
Wait ==
    /\ pc = "loop" /\ due = 0
    /\ ~Ready
    /\ tokens' = [byte |-> Refilled("byte"), iop |-> Refilled("iop")]
    /\ dt' = 0
    /\ \E b \in Sleeps("byte", tokens'["byte"]), i \in Sleeps("iop", tokens'["iop"]) :
        due' = Least(MaxWait, Greatest(MinWait, Greatest(b, i)))
    /\ UNCHANGED <<pc, nbytes, credit>>

(* Then the operation is paid for, without a refill for the byte sleep.    *)
DebitIop ==
    /\ pc = "iop" /\ due = 0
    /\ tokens' = [tokens EXCEPT !["iop"] = @ - Cost("iop")]
    /\ due' \in Sleeps("iop", tokens'["iop"])
    /\ pc' = "return"
    /\ UNCHANGED <<dt, nbytes, credit>>

Return ==
    /\ pc = "return" /\ due = 0
    /\ pc' = "idle"
    /\ credit' = [k \in Kind |-> credit[k] - Cost(k)]
    /\ UNCHANGED <<tokens, dt, nbytes, due>>

(* A tick passes; a sleeper may also wake later than it asked for.  What   *)
(* may be let through grows with the rate, up to the burst and a request.  *)
Tick ==
    /\ due > 0 \/ dt < MaxIdle
    /\ dt' = dt + 1
    /\ due' = Greatest(0, due - 1)
    /\ credit' = [k \in Kind |-> Least(Burst(k) + MaxCost(k), credit[k] + Rate[k])]
    /\ UNCHANGED <<tokens, pc, nbytes>>

Step == Admit \/ Wait \/ DebitIop \/ Return

Next == (\E n \in Requests : Consume(n)) \/ Step \/ Tick

(* The clock runs, and a thread whose sleep is over is scheduled.          *)
Spec == Init /\ [][Next]_vars /\ WF_vars(Step) /\ WF_vars(Tick)

-----------------------------------------------------------------------------
(* README.md, "Rate limits bound backup I/O", and docs/zero-stun-          *)
(* contract.md, "Burst capacity equals one second of the configured rate": *)
(* what `consume` has let through exceeds the rate by no more than the     *)
(* burst since the start, and by no more than the burst and one request in *)
(* any window, but for the rounding of a sleep by less than one tick.      *)
RateBounded == \A k \in Limited : credit[k] > -Rate[k]

(* docs/zero-stun-contract.md, "subsequent I/O waits for that debt to      *)
(* refill": when `consume` returns, the debt of its request is paid.       *)
DebtPaid == pc = "idle" => \A k \in Limited : Virtual(k) > -Rate[k]

(* A request sleeps for what it costs itself and never for the debts of    *)
(* those before it as well: debts do not compound.                         *)
DebtsSeparate ==
    /\ pc = "iop" /\ due > 0 => (due - 1) * Rate["byte"] < Cost("byte")
    /\ pc = "return" /\ due > 0 => (due - 1) * Rate["iop"] < Cost("iop")

(* A turned-away request sleeps for its retry once: the sleep, of 5 ms at  *)
(* least, ends with both buckets out of debt, since what the rounding of   *)
(* an earlier sleep left unpaid is less than a tick's worth.               *)
RetrySuffices ==
    pc = "loop" /\ due > 0 => \A k \in Limited : Virtual(k) + Rate[k] * due >= 0

(* The inductive invariant: a limited sleeper has asked for enough time,   *)
(* the history keeps ahead of the bucket by the request not yet let        *)
(* through, the operations are in credit until they are charged, and a     *)
(* debt slept for is due to the current request alone.                     *)
Asleep(k) == IF (k = "byte" /\ pc = "iop") \/ (k = "iop" /\ pc = "return") THEN due ELSE 0
Outstanding(k) == IF pc \in {"iop", "return"} THEN Cost(k) ELSE 0
Uncharged(k) == IF k = "iop" /\ pc = "iop" THEN Cost(k) ELSE 0
DebtCovered == \A k \in Limited : Virtual(k) + Rate[k] * Asleep(k) > -Rate[k]
CreditAhead ==
    \A k \in Limited : credit[k] >= Least(Burst(k), Virtual(k) - Uncharged(k)) + Outstanding(k)
IopReady == pc = "iop" => tokens["iop"] >= 0
OwnDebt ==
    /\ pc = "iop" => tokens["byte"] + Cost("byte") >= 0
    /\ pc = "return" => tokens["iop"] + Cost("iop") >= 0
IInv == TypeOK /\ DebtCovered /\ CreditAhead /\ IopReady /\ OwnDebt /\ DebtsSeparate

(* Every call of `consume` returns.                                        *)
Returns == pc # "idle" ~> pc = "idle"
=============================================================================
