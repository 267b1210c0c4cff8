-------------------------- MODULE TokenBucketProofs ---------------------------
(***************************************************************************)
(* The rate limiter keeps its rate, for every rate, every clock resolution *)
(* and every size of request.  The argument is that of IInv: the history   *)
(* `credit` never falls behind the bucket, and the bucket is in debt by    *)
(* less than a tick whenever nobody sleeps for it.                         *)
(***************************************************************************)
EXTENDS TokenBucket, TLAPS

-----------------------------------------------------------------------------
(* Arithmetic *)

(* The numbers the constants give, as far as the proofs need them.         *)
LEMMA Constants ==
    /\ Second \in Nat /\ Second > 0 /\ MaxRequest \in Nat
    /\ \A k \in Kind : Rate[k] \in Nat /\ Burst(k) \in Nat
    /\ \A n \in Requests : n \in 0..MaxRequest
<1>1. /\ Second \in Nat /\ Second > 0 /\ MaxRequest \in Nat
      /\ \A n \in Requests : n \in 0..MaxRequest
  BY TokenBucketAssumption
<1>2. \A k \in Kind : Rate[k] \in Nat
  BY TokenBucketAssumption
<1>3. \A r, s \in Nat : r * s \in Nat
  OBVIOUS
<1>4. \A k \in Kind : Burst(k) \in Nat
  BY <1>1, <1>2, <1>3 DEF Burst
<1> QED
  BY <1>1, <1>2, <1>4

(* One more tick, or one less.                                             *)
LEMMA Distribute ==
    ASSUME NEW x \in Int, NEW y \in Int
    PROVE  (x + 1) * y = y * x + y /\ y * (x + 1) = y * x + y /\ y * (x - 1) = y * x - y
           /\ y * x \in Int
OBVIOUS

(* The order of products with one factor in common.                        *)
LEMMA Monotone ==
    ASSUME NEW s \in Nat, NEW m \in Nat, NEW n \in 0..m
    PROVE  n * s \in Nat /\ m * s \in Nat /\ n * s <= m * s
<1>1. m - n \in Nat
  OBVIOUS
<1>2. (m - n) * s \in Nat /\ n * s \in Nat
  BY <1>1
<1>3. m * s = n * s + (m - n) * s
  BY <1>1
<1> QED
  BY <1>2, <1>3

(* No request costs more than the largest.                                 *)
LEMMA CostBounded ==
    ASSUME NEW k \in Kind, NEW n \in 0..MaxRequest
    PROVE  CostOf(k, n) \in Nat /\ MaxCost(k) \in Nat /\ CostOf(k, n) <= MaxCost(k)
<1>1. n * Second \in Nat /\ MaxRequest * Second \in Nat /\ n * Second <= MaxRequest * Second
  BY Constants, Monotone
<1> QED
  BY <1>1, Constants DEF CostOf, MaxCost

(* A sleep for a debt lasts long enough, up to a tick, and not longer than *)
(* the debt takes, up to a tick.                                           *)
LEMMA SleepCovers ==
    ASSUME NEW k \in Kind, NEW t \in Int, NEW d \in Sleeps(k, t)
    PROVE  /\ d \in Nat
           /\ k \in Limited => t + Rate[k] * d > -Rate[k]
           /\ d > 0 => (d - 1) * Rate[k] < -t
<1>1. Rate[k] \in Nat
  BY Constants
<1>2. CASE t >= 0
  <2>1. d = 0
    BY <1>2 DEF Sleeps
  <2> QED
    BY <2>1, <1>1, <1>2 DEF Limited
<1>3. CASE t < 0
  <2>1. d \in Nat /\ (d - 1) * Rate[k] < -t /\ -t < (d + 1) * Rate[k]
    BY <1>3 DEF Sleeps
  <2>2. \A r \in Nat, e \in Nat : -t < (e + 1) * r => t + r * e > -r
    OBVIOUS
  <2> QED
    BY <2>1, <2>2, <1>1
<1> QED
  BY <1>2, <1>3

(* Refilling moves tokens from the clock into the bucket.                  *)
LEMMA RefillType ==
    ASSUME TypeOK, NEW k \in Kind
    PROVE  /\ Virtual(k) \in Int /\ tokens[k] <= Virtual(k)
           /\ Refilled(k) \in Int
           /\ -MaxCost(k) <= Refilled(k) /\ Refilled(k) <= Burst(k)
           /\ Refilled(k) <= Virtual(k)
<1>1. Rate[k] \in Nat /\ Burst(k) \in Nat /\ MaxCost(k) \in Nat
  BY Constants, CostBounded DEF TypeOK
<1>2. Rate[k] * dt \in Nat
  BY <1>1 DEF TypeOK
<1>3. tokens[k] \in Int /\ -MaxCost(k) <= tokens[k] /\ tokens[k] <= Burst(k)
  BY DEF TypeOK
<1> QED
  BY <1>1, <1>2, <1>3 DEF Virtual, Refilled, Least

-----------------------------------------------------------------------------
(* The initial state *)

LEMMA InitInv == Init => IInv
<1> SUFFICES ASSUME Init PROVE IInv
  OBVIOUS
<1>1. \A k \in Kind : /\ Rate[k] \in Nat /\ Burst(k) \in Nat
                      /\ MaxCost(k) \in Nat
  BY Constants, CostBounded
<1>2. MaxRequest \in Nat
  BY Constants
<1>3. TypeOK
  BY <1>1, <1>2 DEF Init, TypeOK
<1>4. \A k \in Kind : Virtual(k) = Burst(k)
  BY <1>1 DEF Init, Virtual
<1>5. \A k \in Kind : Asleep(k) = 0 /\ Outstanding(k) = 0 /\ Uncharged(k) = 0
  BY DEF Init, Asleep, Outstanding, Uncharged
<1>6. DebtCovered
  BY <1>1, <1>4, <1>5 DEF DebtCovered, Limited
<1>7. CreditAhead
  BY <1>1, <1>4, <1>5 DEF Init, CreditAhead, Limited, Least
<1> QED
  BY <1>3, <1>6, <1>7 DEF Init, IInv, IopReady, OwnDebt, DebtsSeparate

-----------------------------------------------------------------------------
(* The steps *)

(* What the invariant says of one kind, with the numbers typed.            *)
LEMMA Facts ==
    ASSUME IInv, NEW k \in Kind
    PROVE  /\ Rate[k] \in Nat /\ Burst(k) \in Nat /\ MaxCost(k) \in Nat
           /\ Cost(k) \in Nat /\ Cost(k) <= MaxCost(k)
           /\ tokens[k] \in Int /\ credit[k] \in Int
           /\ tokens[k] <= Burst(k) /\ -MaxCost(k) <= tokens[k]
           /\ dt \in Nat /\ due \in Nat /\ nbytes \in 0..MaxRequest
           /\ Virtual(k) \in Int /\ tokens[k] <= Virtual(k)
           /\ Refilled(k) \in Int /\ Refilled(k) <= Burst(k) /\ Refilled(k) <= Virtual(k)
           /\ -MaxCost(k) <= Refilled(k)
<1>1. TypeOK
  BY DEF IInv
<1>2. nbytes \in 0..MaxRequest /\ dt \in Nat /\ due \in Nat /\ credit[k] \in Int
  BY <1>1 DEF TypeOK
<1>3. tokens[k] \in Int /\ tokens[k] <= Burst(k) /\ -MaxCost(k) <= tokens[k]
  BY <1>1 DEF TypeOK
<1> QED
  BY <1>1, <1>2, <1>3, Constants, CostBounded, RefillType DEF Cost

LEMMA ConsumeStep ==
    ASSUME IInv, NEW n \in Requests, Consume(n)
    PROVE  IInv'
<1> USE DEF Consume
<1>1. TypeOK'
  BY Constants DEF IInv, TypeOK, MaxCost, CostOf, Burst
<1>2. \A k \in Kind : Virtual(k)' = Virtual(k) /\ Asleep(k) = 0 /\ Asleep(k)' = 0
  BY DEF Virtual, Asleep
<1>3. \A k \in Kind : /\ Outstanding(k) = 0 /\ Outstanding(k)' = 0
                      /\ Uncharged(k) = 0 /\ Uncharged(k)' = 0
  BY DEF Outstanding, Uncharged
<1>4. DebtCovered'
  BY <1>2 DEF IInv, DebtCovered, Limited
<1>5. CreditAhead'
  BY <1>2, <1>3 DEF IInv, CreditAhead, Limited, Burst
<1> QED
  BY <1>1, <1>4, <1>5 DEF IInv, IopReady, OwnDebt, DebtsSeparate

(* At the head of the loop the history is ahead of what a refill gives.    *)
LEMMA AheadAtHead ==
    ASSUME IInv, pc = "loop", NEW k \in Limited
    PROVE  credit[k] >= Refilled(k)
<1>1. k \in Kind
  BY DEF Limited
<1>2. Outstanding(k) = 0 /\ Uncharged(k) = 0
  BY DEF Outstanding, Uncharged
<1>3. credit[k] >= Least(Burst(k), Virtual(k) - 0) + 0
  BY <1>2 DEF IInv, CreditAhead
<1> QED
  BY <1>1, <1>3, Facts DEF Refilled, Least

(* The head of the loop is where both the tokens and the clock change.     *)
LEMMA AdmitStep ==
    ASSUME IInv, Admit
    PROVE  IInv'
<1> USE DEF Admit
<1>1. /\ tokens'["byte"] = Refilled("byte") - Cost("byte")
      /\ tokens'["iop"] = Refilled("iop")
      /\ Refilled("byte") >= 0 /\ Refilled("iop") >= 0
      /\ due' \in Sleeps("byte", tokens'["byte"])
  BY DEF Ready, Kind
<1>2. /\ tokens'["byte"] \in Int /\ tokens'["iop"] \in Int
      /\ tokens'["byte"] >= -MaxCost("byte") /\ tokens'["byte"] <= Burst("byte")
      /\ tokens'["iop"] >= -MaxCost("iop") /\ tokens'["iop"] <= Burst("iop")
  BY <1>1, Facts DEF Kind
<1>3. /\ due' \in Nat
      /\ "byte" \in Limited => tokens'["byte"] + Rate["byte"] * due' > -Rate["byte"]
      /\ due' > 0 => (due' - 1) * Rate["byte"] < -tokens'["byte"]
  BY <1>1, <1>2, SleepCovers DEF Kind
<1>4. TypeOK'
  <2>1. tokens' \in [Kind -> Int]
    BY <1>2 DEF Kind
  <2>2. \A k \in Kind : -MaxCost(k) <= tokens'[k] /\ tokens'[k] <= Burst(k)
    BY <1>2 DEF Kind
  <2> QED
    BY <2>1, <2>2, <1>3 DEF IInv, TypeOK, MaxCost, CostOf, Burst
<1>5. \A k \in Kind : Virtual(k)' = tokens'[k]
  BY <1>2, Constants DEF Virtual, Kind
<1>6. DebtCovered'
  <2>1. "byte" \in Limited => Virtual("byte")' + Rate["byte"] * Asleep("byte")' > -Rate["byte"]
    BY <1>3, <1>5 DEF Asleep, Kind
  <2>2. "iop" \in Limited => Virtual("iop")' + Rate["iop"] * Asleep("iop")' > -Rate["iop"]
    <3>1. Asleep("iop")' = 0
      BY DEF Asleep
    <3> QED
      BY <3>1, <1>1, <1>2, <1>5, Constants DEF Kind, Limited
  <2> QED
    BY <2>1, <2>2 DEF DebtCovered, Limited, Kind
<1>7. CreditAhead'
  <2>1. \A k \in Limited : credit[k] >= Refilled(k)
    BY AheadAtHead
  <2>2. /\ Outstanding("byte")' = Cost("byte") /\ Outstanding("iop")' = Cost("iop")
        /\ Uncharged("byte")' = 0 /\ Uncharged("iop")' = Cost("iop")
    BY DEF Outstanding, Uncharged, Cost, CostOf
  <2>3. "byte" \in Limited =>
            credit'["byte"] >= Least(Burst("byte"), Virtual("byte")' - Uncharged("byte")')
                                + Outstanding("byte")'
    BY <1>1, <1>2, <1>5, <2>1, <2>2, Facts DEF Least, Kind
  <2>4. "iop" \in Limited =>
            credit'["iop"] >= Least(Burst("iop"), Virtual("iop")' - Uncharged("iop")')
                                + Outstanding("iop")'
    BY <1>1, <1>2, <1>5, <2>1, <2>2, Facts DEF Least, Kind
  <2> QED
    BY <2>3, <2>4 DEF CreditAhead, Limited, Kind, Burst
<1>8. IopReady' /\ OwnDebt'
  <2>1. Cost("byte")' = Cost("byte")
    BY DEF Cost, CostOf
  <2> QED
    BY <2>1, <1>1, Facts DEF IopReady, OwnDebt, Kind
<1>9. DebtsSeparate'
  <2>1. Cost("byte")' = Cost("byte")
    BY DEF Cost, CostOf
  <2>2. due' > 0 => (due' - 1) * Rate["byte"] < Cost("byte")
    <3> SUFFICES ASSUME due' > 0 PROVE (due' - 1) * Rate["byte"] < Cost("byte")
      OBVIOUS
    <3>1. (due' - 1) * Rate["byte"] \in Int
      BY <1>3, Constants, Distribute DEF Kind
    <3> QED
      BY <3>1, <1>1, <1>2, <1>3, Facts DEF Kind
  <2> QED
    BY <2>1, <2>2 DEF DebtsSeparate
<1> QED
  BY <1>4, <1>6, <1>7, <1>8, <1>9 DEF IInv
LEMMA WaitStep ==
    ASSUME IInv, Wait
    PROVE  IInv'
<1> USE DEF Wait
<1>1. \A k \in Kind : tokens'[k] = Refilled(k)
  BY DEF Kind
<1>2. due' \in Nat
  <2>1. PICK b \in Sleeps("byte", tokens'["byte"]), i \in Sleeps("iop", tokens'["iop"]) :
            due' = Least(MaxWait, Greatest(MinWait, Greatest(b, i)))
    BY DEF Kind
  <2>2. b \in Nat /\ i \in Nat
    BY <2>1, <1>1, Facts, SleepCovers DEF Kind
  <2> QED
    BY <2>1, <2>2, TokenBucketAssumption DEF Least, Greatest
<1>3. TypeOK'
  <2>1. tokens' \in [Kind -> Int]
    BY <1>1, Facts DEF Kind
  <2>2. \A k \in Kind : -MaxCost(k) <= tokens'[k] /\ tokens'[k] <= Burst(k)
    BY <1>1, Facts
  <2> QED
    BY <2>1, <2>2, <1>2 DEF IInv, TypeOK, MaxCost, CostOf, Burst
<1>4. \A k \in Kind : Virtual(k)' = Refilled(k)
  BY <1>1, Facts DEF Virtual
<1>5. \A k \in Kind : /\ Asleep(k) = 0 /\ Asleep(k)' = 0
                      /\ Outstanding(k)' = 0 /\ Uncharged(k)' = 0
  BY DEF Asleep, Outstanding, Uncharged
<1>6. DebtCovered'
  <2> SUFFICES ASSUME NEW k \in Limited PROVE Refilled(k) > -Rate[k]
    BY <1>4, <1>5, Facts DEF DebtCovered, Limited
  <2>1. Virtual(k) > -Rate[k]
    BY <1>5, Facts DEF IInv, DebtCovered, Limited
  <2> QED
    BY <2>1, Facts DEF Refilled, Least, Limited
<1>7. CreditAhead'
  <2> SUFFICES ASSUME NEW k \in Limited
               PROVE  credit[k] >= Least(Burst(k), Refilled(k) - 0) + 0
    BY <1>4, <1>5 DEF CreditAhead, Limited, Burst
  <2>1. credit[k] >= Refilled(k)
    BY AheadAtHead
  <2> QED
    BY <2>1, Facts DEF Least, Limited
<1> QED
  BY <1>3, <1>6, <1>7 DEF IInv, IopReady, OwnDebt, DebtsSeparate

LEMMA DebitIopStep ==
    ASSUME IInv, DebitIop
    PROVE  IInv'
<1> USE DEF DebitIop
<1>1. /\ tokens'["byte"] = tokens["byte"] /\ tokens'["iop"] = tokens["iop"] - Cost("iop")
      /\ tokens["iop"] >= 0 /\ tokens["byte"] \in Int /\ tokens["iop"] \in Int
      /\ tokens' \in [Kind -> Int]
  BY Facts DEF IInv, TypeOK, IopReady, Kind
<1>2. tokens'["iop"] >= -MaxCost("iop") /\ tokens'["iop"] <= Burst("iop")
  BY <1>1, Facts DEF Kind
<1>3. /\ due' \in Nat
      /\ "iop" \in Limited => tokens'["iop"] + Rate["iop"] * due' > -Rate["iop"]
      /\ due' > 0 => (due' - 1) * Rate["iop"] < -tokens'["iop"]
  BY <1>1, SleepCovers DEF Kind
<1>4. TypeOK'
  <2>1. \A k \in Kind : -MaxCost(k) <= tokens'[k] /\ tokens'[k] <= Burst(k)
    BY <1>1, <1>2, Facts DEF Kind
  <2> QED
    BY <2>1, <1>1, <1>3 DEF IInv, TypeOK, MaxCost, CostOf, Burst
<1>5. /\ Virtual("byte")' = Virtual("byte")
      /\ Virtual("iop")' = tokens'["iop"] + Rate["iop"] * dt
      /\ Virtual("iop") = tokens["iop"] + Rate["iop"] * dt
  BY <1>1 DEF Virtual
<1>6. /\ Asleep("byte") = 0 /\ Asleep("byte")' = 0
      /\ Asleep("iop")' = due'
  BY DEF Asleep
<1>7. Rate["iop"] * dt \in Nat /\ Rate["iop"] \in Nat
  BY Facts DEF Kind
<1>8. DebtCovered'
  <2>1. "byte" \in Limited => Virtual("byte")' + Rate["byte"] * Asleep("byte")' > -Rate["byte"]
    BY <1>5, <1>6 DEF IInv, DebtCovered
  <2>2. "iop" \in Limited => Virtual("iop")' + Rate["iop"] * Asleep("iop")' > -Rate["iop"]
    <3>1. Rate["iop"] * due' \in Nat /\ tokens'["iop"] \in Int
      BY <1>1, <1>3, <1>7 DEF Kind
    <3> QED
      BY <3>1, <1>3, <1>5, <1>6, <1>7
  <2> QED
    BY <2>1, <2>2 DEF DebtCovered, Limited, Kind
<1>9. CreditAhead'
  <2> SUFFICES ASSUME NEW k \in Limited
               PROVE  (credit[k] >= Least(Burst(k), Virtual(k) - Uncharged(k)) + Outstanding(k))'
    BY DEF CreditAhead, Limited
  <2>1. Outstanding(k)' = Outstanding(k)
    BY DEF Outstanding, Cost, CostOf
  <2>2. (Virtual(k) - Uncharged(k))' = Virtual(k) - Uncharged(k)
    <3>1. k \in {"byte", "iop"} /\ Virtual(k) \in Int /\ Cost(k) \in Int
      BY Facts DEF Limited, Kind
    <3>2. CASE k = "byte"
      BY <3>1, <3>2, <1>5 DEF Uncharged
    <3>3. CASE k = "iop"
      <4>1. Uncharged("iop") = Cost("iop") /\ Uncharged("iop")' = 0
        BY DEF Uncharged
      <4> QED
        BY <4>1, <3>1, <3>3, <1>1, <1>5, <1>7
    <3> QED
      BY <3>1, <3>2, <3>3
  <2> QED
    BY <2>1, <2>2 DEF IInv, CreditAhead, Burst
<1>10. DebtsSeparate'
  <2>1. Cost("iop")' = Cost("iop")
    BY DEF Cost, CostOf
  <2>2. due' > 0 => (due' - 1) * Rate["iop"] < Cost("iop")
    <3> SUFFICES ASSUME due' > 0 PROVE (due' - 1) * Rate["iop"] < Cost("iop")
      OBVIOUS
    <3>1. (due' - 1) * Rate["iop"] \in Int
      BY <1>3, <1>7, Distribute
    <3> QED
      BY <3>1, <1>1, <1>3, Facts DEF Kind
  <2> QED
    BY <2>1, <2>2 DEF DebtsSeparate
<1>11. IopReady' /\ OwnDebt'
  <2>1. Cost("iop")' = Cost("iop")
    BY DEF Cost, CostOf
  <2> QED
    BY <2>1, <1>1, Facts DEF IopReady, OwnDebt, Kind
<1> QED
  BY <1>4, <1>8, <1>9, <1>10, <1>11 DEF IInv
LEMMA ReturnStep ==
    ASSUME IInv, Return
    PROVE  IInv'
<1> USE DEF Return
<1>1. \A k \in Kind : credit'[k] = credit[k] - Cost(k) /\ credit'[k] \in Int
  BY Facts
<1>2. TypeOK'
  <2>1. credit' \in [Kind -> Int]
    BY <1>1
  <2> QED
    BY <2>1 DEF IInv, TypeOK, MaxCost, CostOf, Burst
<1>3. \A k \in Kind : /\ Virtual(k)' = Virtual(k)
                      /\ Asleep(k)' = 0 /\ Asleep(k) = 0
                      /\ Outstanding(k) = Cost(k) /\ Outstanding(k)' = 0
                      /\ Uncharged(k) = 0 /\ Uncharged(k)' = 0
  BY DEF Virtual, Asleep, Outstanding, Uncharged
<1>4. DebtCovered'
  BY <1>3 DEF IInv, DebtCovered, Limited
<1>5. CreditAhead'
  <2> SUFFICES ASSUME NEW k \in Limited
               PROVE  credit[k] - Cost(k) >= Least(Burst(k), Virtual(k) - 0) + 0
    BY <1>1, <1>3 DEF CreditAhead, Limited, Burst
  <2>1. k \in Kind
    BY DEF Limited
  <2>2. credit[k] >= Least(Burst(k), Virtual(k) - 0) + Cost(k)
    BY <1>3, <2>1 DEF IInv, CreditAhead
  <2> QED
    BY <2>1, <2>2, Facts DEF Least
<1> QED
  BY <1>2, <1>4, <1>5 DEF IInv, IopReady, OwnDebt, DebtsSeparate

(* A tick moves a limited sleeper's claim from its sleep into the clock.   *)
LEMMA TickStep ==
    ASSUME IInv, Tick
    PROVE  IInv'
<1> USE DEF Tick
<1>1. dt' \in Nat /\ due' \in Nat /\ due \in Nat /\ dt \in Nat
  BY DEF IInv, TypeOK, Greatest
<1>2. due > 0 => due' = due - 1
  BY <1>1 DEF Greatest
<1>3. due = 0 => due' = 0
  BY <1>1 DEF Greatest
<1>4. \A k \in Kind : /\ credit'[k] = Least(Burst(k) + MaxCost(k), credit[k] + Rate[k])
                      /\ credit'[k] \in Int
  BY Facts DEF Least
<1>5. TypeOK'
  <2>1. credit' \in [Kind -> Int]
    BY <1>4
  <2> QED
    BY <2>1, <1>1 DEF IInv, TypeOK, MaxCost, CostOf, Burst
<1>6. ASSUME NEW k \in Kind
      PROVE  Virtual(k)' = Virtual(k) + Rate[k]
  <2>1. Rate[k] \in Nat /\ tokens[k] \in Int
    BY Facts
  <2>2. \A r \in Nat, x \in Nat : r * (x + 1) = r * x + r /\ r * x \in Nat
    OBVIOUS
  <2> QED
    BY <2>1, <2>2, <1>1 DEF Virtual
<1>7. DebtCovered'
  <2> SUFFICES ASSUME NEW k \in Limited
               PROVE  (Virtual(k) + Rate[k] * Asleep(k) > -Rate[k])'
    BY DEF DebtCovered, Limited
  <2>1. k \in Kind /\ Rate[k] \in Nat /\ Virtual(k) \in Int
    BY Facts DEF Limited
  <2>2. Virtual(k) + Rate[k] * Asleep(k) > -Rate[k]
    BY DEF IInv, DebtCovered
  <2>3. CASE Asleep(k) = 0
    <3>1. Asleep(k)' = 0
      BY <2>3, <1>3 DEF Asleep
    <3> QED
      BY <3>1, <2>1, <2>2, <2>3, <1>6
  <2>4. CASE Asleep(k) # 0
    <3>1. Asleep(k) = due /\ due > 0 /\ Asleep(k)' = due - 1
      BY <2>4, <1>1, <1>2 DEF Asleep
    <3>2. Rate[k] * (due - 1) = Rate[k] * due - Rate[k] /\ Rate[k] * due \in Int
      <4>1. \A r \in Nat, x \in Nat : r * (x - 1) = r * x - r /\ r * x \in Int
        OBVIOUS
      <4> QED
        BY <4>1, <2>1, <1>1
    <3> QED
      BY <3>1, <3>2, <2>1, <2>2, <1>6
  <2> QED
    BY <2>3, <2>4
<1>8. CreditAhead'
  <2> SUFFICES ASSUME NEW k \in Limited
               PROVE  (credit[k] >= Least(Burst(k), Virtual(k) - Uncharged(k)) + Outstanding(k))'
    BY DEF CreditAhead, Limited
  <2>1. k \in Kind
    BY DEF Limited
  <2>2. credit[k] >= Least(Burst(k), Virtual(k) - Uncharged(k)) + Outstanding(k)
    BY DEF IInv, CreditAhead
  <2>3. /\ Outstanding(k)' = Outstanding(k) /\ Uncharged(k)' = Uncharged(k)
        /\ Burst(k)' = Burst(k)
    BY DEF Outstanding, Uncharged, Cost, CostOf, Burst
  <2>4. /\ Outstanding(k) \in Nat /\ Outstanding(k) <= MaxCost(k)
        /\ Uncharged(k) \in Nat
    BY <2>1, Facts DEF Outstanding, Uncharged
  <2>5. Virtual(k)' = Virtual(k) + Rate[k]
    BY <1>6, <2>1
  <2> QED
    BY <2>1, <2>2, <2>3, <2>4, <2>5, <1>4, Facts DEF Least
<1>9. IopReady' /\ OwnDebt'
  BY DEF IInv, IopReady, OwnDebt, Cost, CostOf
<1>10. DebtsSeparate'
  <2>1. Cost("byte")' = Cost("byte") /\ Cost("iop")' = Cost("iop")
    BY DEF Cost, CostOf
  <2>2. ASSUME NEW k \in Kind, due' > 0, (due - 1) * Rate[k] < Cost(k)
        PROVE  (due' - 1) * Rate[k] < Cost(k)
    <3>1. \A r \in Nat, x \in Nat : /\ (x - 1 - 1) * r = (x - 1) * r - r
                                   /\ (x - 1) * r \in Int
      OBVIOUS
    <3>2. due' = due - 1
      BY <2>2, <1>1, <1>2, <1>3
    <3> QED
      BY <3>1, <3>2, <2>2, <1>1, Facts
  <2>3. due' > 0 => due > 0
    BY <1>1, <1>2, <1>3
  <2>4. pc = "iop" /\ due' > 0 => (due' - 1) * Rate["byte"] < Cost("byte")
    BY <2>2, <2>3 DEF IInv, DebtsSeparate, Kind
  <2>5. pc = "return" /\ due' > 0 => (due' - 1) * Rate["iop"] < Cost("iop")
    BY <2>2, <2>3 DEF IInv, DebtsSeparate, Kind
  <2> QED
    BY <2>1, <2>4, <2>5 DEF DebtsSeparate
<1> QED
  BY <1>5, <1>7, <1>8, <1>9, <1>10 DEF IInv

LEMMA StutterStep ==
    ASSUME IInv, UNCHANGED vars
    PROVE  IInv'
<1> USE DEF vars
<1>1. TypeOK'
  BY DEF IInv, TypeOK, MaxCost, CostOf, Burst
<1>2. DebtCovered'
  BY DEF IInv, DebtCovered, Virtual, Asleep, Limited
<1>3. CreditAhead'
  BY DEF IInv, CreditAhead, Virtual, Outstanding, Uncharged, Cost, CostOf, Burst, Limited
<1>4. IopReady' /\ OwnDebt' /\ DebtsSeparate'
  BY DEF IInv, IopReady, OwnDebt, DebtsSeparate, Cost, CostOf
<1> QED
  BY <1>1, <1>2, <1>3, <1>4 DEF IInv

-----------------------------------------------------------------------------
(* The theorems *)

(* IInv is an invariant of the rate limiter.                               *)
THEOREM Invariance == Spec => []IInv
<1>1. Init => IInv
  BY InitInv
<1>2. IInv /\ [Next]_vars => IInv'
  <2> SUFFICES ASSUME IInv, [Next]_vars PROVE IInv'
    OBVIOUS
  <2>1. ASSUME NEW n \in Requests, Consume(n) PROVE IInv'
    BY <2>1, ConsumeStep
  <2>2. CASE Admit
    BY <2>2, AdmitStep
  <2>3. CASE Wait
    BY <2>3, WaitStep
  <2>4. CASE DebitIop
    BY <2>4, DebitIopStep
  <2>5. CASE Return
    BY <2>5, ReturnStep
  <2>6. CASE Tick
    BY <2>6, TickStep
  <2>7. CASE UNCHANGED vars
    BY <2>7, StutterStep
  <2> QED
    BY <2>1, <2>2, <2>3, <2>4, <2>5, <2>6, <2>7 DEF Next, Step
<1> QED
  BY <1>1, <1>2, PTL DEF Spec

(* The types, and tokens between the debt of one request and the burst.    *)
THEOREM TypeCorrect == Spec => []TypeOK
<1>1. IInv => TypeOK
  BY DEF IInv
<1> QED
  BY <1>1, Invariance, PTL

(* What is let through keeps to the rate: over any time since the start,   *)
(* and over any window.                                                    *)
THEOREM KeepsRate == Spec => []RateBounded
<1>1. IInv => RateBounded
  <2> SUFFICES ASSUME IInv, NEW k \in Limited PROVE credit[k] > -Rate[k]
    BY DEF RateBounded
  <2>1. k \in Kind /\ Rate[k] \in Nat /\ Rate[k] > 0
    BY Facts DEF Limited
  <2>2. credit[k] >= Least(Burst(k), Virtual(k) - Uncharged(k)) + Outstanding(k)
    BY DEF IInv, CreditAhead
  <2>3. Virtual(k) + Rate[k] * Asleep(k) > -Rate[k]
    BY DEF IInv, DebtCovered
  <2>4. CASE pc \in {"idle", "loop"}
    <3>1. Asleep(k) = 0 /\ Uncharged(k) = 0 /\ Outstanding(k) = 0
      BY <2>4 DEF Asleep, Uncharged, Outstanding
    <3> QED
      BY <3>1, <2>1, <2>2, <2>3, Facts DEF Least
  <2>5. CASE pc \in {"iop", "return"}
    <3>1. Outstanding(k) = Cost(k) /\ Uncharged(k) \in {0, Cost(k)}
      BY <2>5 DEF Outstanding, Uncharged
    <3>2. Virtual(k) - Uncharged(k) + Cost(k) > -Rate[k]
      <4>1. CASE (k = "byte" /\ pc = "iop") \/ (k = "iop" /\ pc = "return")
        <5>1. tokens[k] + Cost(k) >= 0 /\ Uncharged(k) = 0
          BY <4>1 DEF IInv, OwnDebt, Uncharged
        <5> QED
          BY <5>1, <2>1, Facts
      <4>2. CASE Asleep(k) = 0
        BY <4>2, <3>1, <2>1, <2>3, Facts
      <4> QED
        BY <4>1, <4>2 DEF Asleep
    <3> QED
      BY <3>1, <3>2, <2>1, <2>2, Facts DEF Least
  <2> QED
    BY <2>1, <2>4, <2>5 DEF IInv, TypeOK
<1> QED
  BY <1>1, Invariance, PTL
(* When `consume` returns, its debt is paid.                               *)
THEOREM ReturnsPaid == Spec => []DebtPaid
<1>1. IInv => DebtPaid
  <2> SUFFICES ASSUME IInv, pc = "idle", NEW k \in Limited PROVE Virtual(k) > -Rate[k]
    BY DEF DebtPaid
  <2>1. k \in Kind /\ Asleep(k) = 0
    BY DEF Limited, Asleep
  <2>2. Virtual(k) + Rate[k] * Asleep(k) > -Rate[k]
    BY DEF IInv, DebtCovered
  <2> QED
    BY <2>1, <2>2, Facts
<1> QED
  BY <1>1, Invariance, PTL

(* No request sleeps for longer than it costs.                             *)
THEOREM DebtsStaySeparate == Spec => []DebtsSeparate
<1>1. IInv => DebtsSeparate
  BY DEF IInv
<1> QED
  BY <1>1, Invariance, PTL

-----------------------------------------------------------------------------
(* Retries *)

(* Who is not inside a call is not asleep.                                 *)
IdleAwake == pc = "idle" => due = 0

(* A retry sleeps for the least that the loop allows: what it waits for is *)
(* less than a tick's worth, and the clamp at half a second never bites.   *)
RetryShort == pc = "loop" => due <= MinWait

RetryInv == RetrySuffices /\ IdleAwake /\ RetryShort

(* A debt of less than a tick's worth is slept for a tick at most.         *)
LEMMA SleepShort ==
    ASSUME NEW k \in Limited, NEW t \in Int, t > -Rate[k], NEW d \in Sleeps(k, t)
    PROVE  d \in 0 .. 1
<1>1. Rate[k] \in Nat /\ Rate[k] > 0
  BY Constants DEF Limited
<1>2. CASE t >= 0
  BY <1>2 DEF Sleeps
<1>3. CASE t < 0
  <2>1. d \in Nat /\ (d - 1) * Rate[k] < -t
    BY <1>3 DEF Sleeps
  <2>2. ASSUME d >= 2 PROVE FALSE
    <3>1. 1 * Rate[k] <= (d - 1) * Rate[k] /\ (d - 1) * Rate[k] \in Nat
      BY <2>1, <2>2, <1>1, Monotone
    <3>2. 1 * Rate[k] = Rate[k]
      BY <1>1
    <3> QED
      BY <3>1, <3>2, <2>1, <1>1
  <2> QED
    BY <2>1, <2>2
<1> QED
  BY <1>2, <1>3

(* A retry sleeps for a tick or more, and the debt it sleeps for is less   *)
(* than a tick's worth.                                                    *)
LEMMA WaitRetry ==
    ASSUME IInv, Wait
    PROVE  RetryInv'
<1> USE DEF Wait
<1>1. PICK b \in Sleeps("byte", tokens'["byte"]), i \in Sleeps("iop", tokens'["iop"]) :
          due' = Least(MaxWait, Greatest(MinWait, Greatest(b, i)))
  OBVIOUS
<1>2. \A k \in Kind : tokens'[k] = Refilled(k)
  BY DEF Kind
<1>3. b \in Nat /\ i \in Nat
  BY <1>2, Facts, SleepCovers DEF Kind
<1>4. due' \in Nat /\ due' >= 1
  BY <1>1, <1>3, TokenBucketAssumption DEF Least, Greatest
<1>5. ASSUME NEW k \in Limited PROVE Refilled(k) > -Rate[k]
  <2>1. k \in Kind /\ Asleep(k) = 0
    BY DEF Limited, Asleep
  <2>2. Virtual(k) > -Rate[k]
    BY <2>1, Facts DEF IInv, DebtCovered
  <2> QED
    BY <2>1, <2>2, Facts DEF Refilled, Least, Limited
<1>6. ASSUME NEW k \in Limited
      PROVE  (Virtual(k) + Rate[k] * due >= 0)'
  <2>1. k \in Kind
    BY DEF Limited
  <2>2. Virtual(k)' = Refilled(k)
    BY <1>2, <2>1, Facts DEF Virtual
  <2>5. Rate[k] * due' >= Rate[k] /\ Rate[k] * due' \in Int
    <3>1. 1 * Rate[k] <= due' * Rate[k]
      BY <1>4, <2>1, Facts, Monotone
    <3>2. due' * Rate[k] = Rate[k] * due' /\ Rate[k] * due' \in Int
      BY <1>4, <2>1, Facts
    <3> QED
      BY <3>1, <3>2, <2>1, Facts
  <2> QED
    BY <2>1, <2>2, <2>5, <1>5, Facts
<1>7. ASSUME NEW k \in Kind, NEW d \in Sleeps(k, tokens'[k]) PROVE d \in 0 .. 1
  <2>1. CASE k \in Limited
    BY <2>1, <1>2, <1>5, <1>7, Facts, SleepShort
  <2>2. CASE k \notin Limited
    <3>1. Rate[k] = 0 /\ MaxCost(k) = 0
      BY <2>2, Facts DEF Limited, MaxCost, CostOf
    <3>2. Refilled(k) >= 0
      BY <3>1, Facts
    <3> QED
      BY <3>2, <1>2, <1>7 DEF Sleeps
  <2> QED
    BY <2>1, <2>2
<1>8. due' <= MinWait
  <2>1. b \in 0 .. 1 /\ i \in 0 .. 1
    BY <1>7 DEF Kind
  <2> QED
    BY <2>1, <1>1, TokenBucketAssumption DEF Least, Greatest
<1> QED
  BY <1>6, <1>8 DEF RetryInv, RetrySuffices, IdleAwake, RetryShort, Limited

(* A tick moves the retry's claim from its sleep into the clock.           *)
LEMMA TickRetry ==
    ASSUME IInv, RetryInv, Tick
    PROVE  RetryInv'
<1> USE DEF Tick
<1>1. due \in Nat /\ dt \in Nat
  BY DEF IInv, TypeOK
<1>2. due' = IF due > 0 THEN due - 1 ELSE 0
  BY <1>1 DEF Greatest
<1>3. IdleAwake'
  BY <1>1, <1>2 DEF RetryInv, IdleAwake
<1>4. ASSUME pc = "loop", due' > 0, NEW k \in Limited
      PROVE  (Virtual(k) + Rate[k] * due >= 0)'
  <2>1. k \in Kind /\ due > 0 /\ due' = due - 1
    BY <1>1, <1>2, <1>4 DEF Limited
  <2>2. Virtual(k) + Rate[k] * due >= 0
    BY <1>4, <2>1 DEF RetryInv, RetrySuffices
  <2>3. Virtual(k)' = Virtual(k) + Rate[k]
    <3>1. Rate[k] * (dt + 1) = Rate[k] * dt + Rate[k] /\ Rate[k] * dt \in Int
      <4>1. \A r \in Nat, x \in Nat : r * (x + 1) = r * x + r /\ r * x \in Int
        OBVIOUS
      <4> QED
        BY <4>1, <1>1, <2>1, Facts
    <3> QED
      BY <3>1, <2>1, Facts DEF Virtual
  <2>4. Rate[k] * (due - 1) = Rate[k] * due - Rate[k] /\ Rate[k] * due \in Int
    BY <1>1, <2>1, Facts, Distribute
  <2> QED
    BY <2>1, <2>2, <2>3, <2>4, Facts
<1>5. RetryShort'
  BY <1>1, <1>2, TokenBucketAssumption DEF RetryInv, RetryShort
<1> QED
  BY <1>3, <1>4, <1>5 DEF RetryInv, RetrySuffices, Limited

(* A turned-away request is let in when its retry's sleep ends, which is   *)
(* the shortest: no request waits at the head of the loop twice            *)
(* (rate_limit.rs:109).                                                    *)
THEOREM RetriesSuffice == Spec => []RetrySuffices /\ []RetryShort
<1>1. Init => RetryInv
  BY TokenBucketAssumption DEF Init, RetryInv, RetrySuffices, IdleAwake, RetryShort
<1>2. IInv /\ RetryInv /\ [Next]_vars => RetryInv'
  <2> SUFFICES ASSUME IInv, RetryInv, [Next]_vars PROVE RetryInv'
    OBVIOUS
  <2>1. ASSUME NEW n \in Requests, Consume(n) PROVE RetryInv'
    BY <2>1, TokenBucketAssumption DEF Consume, RetryInv, RetrySuffices, IdleAwake, RetryShort
  <2>2. CASE Admit
    BY <2>2 DEF Admit, RetryInv, RetrySuffices, IdleAwake, RetryShort
  <2>3. CASE Wait
    BY <2>3, WaitRetry
  <2>4. CASE DebitIop
    BY <2>4 DEF DebitIop, RetryInv, RetrySuffices, IdleAwake, RetryShort
  <2>5. CASE Return
    BY <2>5 DEF Return, RetryInv, RetrySuffices, IdleAwake, RetryShort
  <2>6. CASE Tick
    BY <2>6, TickRetry
  <2>7. CASE UNCHANGED vars
    BY <2>7 DEF vars, RetryInv, RetrySuffices, IdleAwake, RetryShort, Limited, Virtual
  <2> QED
    BY <2>1, <2>2, <2>3, <2>4, <2>5, <2>6, <2>7 DEF Next, Step
<1>3. RetryInv => RetrySuffices /\ RetryShort
  BY DEF RetryInv
<1> QED
  BY <1>1, <1>2, <1>3, Invariance, PTL DEF Spec
=============================================================================
