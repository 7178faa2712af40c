-------------------------- MODULE TimeLockedProofs --------------------------
(***************************************************************************)
(* Theorems about the contracts that depend on the ledger sequence, for    *)
(* every set of accounts, every schedule, delay and integer width.         *)
(***************************************************************************)
EXTENDS TimeLocked, AccountsProofs

-----------------------------------------------------------------------------
(* The vesting curve.                                                      *)

\* Rounding down keeps the order.
LEMMA DivMonotone ==
    ASSUME NEW m \in Nat, NEW n \in Nat, NEW d \in Nat \ {0}, m <= n
    PROVE  m \div d \in Nat /\ m \div d <= n \div d
OBVIOUS

LEMMA MulMonotone ==
    ASSUME NEW t \in Nat, NEW m \in Nat, NEW n \in Nat, m <= n
    PROVE  t * m \in Nat /\ t * m <= t * n
OBVIOUS

\* A share of t by a fraction below 1 is at most t.
LEMMA ShareWithin ==
    ASSUME NEW t \in Nat, NEW e \in Nat, NEW d \in Nat \ {0}, e <= d
    PROVE  (t * e) \div d \in 0..t
<1>1. t * e \in Nat /\ t * d \in Nat /\ t * e <= t * d
    BY MulMonotone
<1>2. (t * d) \div d = t
    OBVIOUS
<1> QED BY <1>1, <1>2, DivMonotone

\* vested_for_schedule as a function of the time it is asked for.
VestedAt(s, t) ==
    IF t < s.cliff_ledger THEN 0
    ELSE IF t >= s.end_ledger THEN s.total
    ELSE (s.total * (t - s.cliff_ledger)) \div (s.end_ledger - s.cliff_ledger)

LEMMA VestedNow == \A s : vested_for_schedule(s) = VestedAt(s, effective_now(s))
BY DEF vested_for_schedule, VestedAt

\* A schedule whose cliff precedes its end.
Sound(s) == s \in VestingSchedule /\ s.cliff_ledger < s.end_ledger

LEMMA ScheduleFields ==
    ASSUME NEW s \in VestingSchedule
    PROVE  /\ s.total \in Nat /\ s.claimed \in Nat /\ s.total >= 1 /\ s.total <= I128_MAX
           /\ s.cliff_ledger \in Nat /\ s.end_ledger \in Nat
           /\ s.revoked_at \in Ledgers \cup {NotRevoked}
           /\ I128_MAX \in Int /\ U32_MAX \in Nat
BY VestingAssumption DEF VestingSchedule, Ledgers

\* Between 0 and the total is vested at any time, and never less later.
LEMMA VestedGrows ==
    ASSUME NEW s, Sound(s), NEW t \in Nat, NEW u \in Nat, t <= u
    PROVE  VestedAt(s, t) \in 0..s.total /\ VestedAt(s, t) <= VestedAt(s, u)
<1> DEFINE c == s.cliff_ledger
           d == s.end_ledger - s.cliff_ledger
           Share(x) == (s.total * (x - c)) \div d
<1>1. s.total \in Nat /\ c \in Nat /\ s.end_ledger \in Nat /\ d \in Nat \ {0}
    BY ScheduleFields DEF Sound
<1>2. ASSUME NEW x \in Nat, x >= c, x < s.end_ledger
      PROVE  Share(x) \in 0..s.total
    <2>1. x - c \in Nat /\ x - c <= d
        BY <1>1, <1>2
    <2> HIDE DEF c, d
    <2> QED BY <1>1, <2>1, ShareWithin
<1>3. ASSUME NEW x \in Nat, NEW y \in Nat, x >= c, x <= y
      PROVE  Share(x) <= Share(y)
    <2>1. x - c \in Nat /\ y - c \in Nat /\ x - c <= y - c
        BY <1>1, <1>3
    <2> HIDE DEF c, d
    <2>2. /\ s.total * (x - c) \in Nat /\ s.total * (y - c) \in Nat
          /\ s.total * (x - c) <= s.total * (y - c)
        BY <1>1, <2>1, MulMonotone
    <2> QED BY <1>1, <2>2, DivMonotone
<1>4. \A x \in Nat : VestedAt(s, x) = IF x < c THEN 0 ELSE IF x >= s.end_ledger THEN s.total ELSE Share(x)
    BY DEF VestedAt
<1> HIDE DEF c, d, Share
<1>5. \A x \in Nat : VestedAt(s, x) \in 0..s.total
    BY <1>1, <1>2, <1>4
<1>6. CASE t < c
    BY <1>1, <1>4, <1>5, <1>6
<1>7. CASE u >= s.end_ledger
    BY <1>1, <1>4, <1>5, <1>7 DEF c
<1>8. CASE t >= c /\ u < s.end_ledger
    BY <1>1, <1>3, <1>4, <1>5, <1>8
<1> QED BY <1>1, <1>5, <1>6, <1>7, <1>8

-----------------------------------------------------------------------------
(* The vesting contract.  The invariant needs to know of a schedule what   *)
(* its operations rely on without looking: the cliff lies before the end,  *)
(* a revocation lies in the past, nobody without a schedule was paid, and  *)
(* the treasury counts revoked schedules only.  What was claimed is        *)
(* compared with the exact curve, also where the code cannot compute it.   *)

\* The time up to which a schedule vests.
Until(s, now) == IF s.revoked_at # NotRevoked /\ now > s.revoked_at THEN s.revoked_at ELSE now

ScheduleSound(b) ==
    IF schedule[b] = NoSchedule THEN paid[b] = 0 /\ b \notin returned
    ELSE /\ Sound(schedule[b])
         /\ schedule[b].revoked_at # NotRevoked => schedule[b].revoked_at <= sequence
         /\ paid[b] = schedule[b].claimed
         /\ schedule[b].claimed <= VestedAt(schedule[b], Until(schedule[b], sequence))
         /\ b \in returned => schedule[b].revoked_at # NotRevoked
         /\ schedule[b].revoked_at # NotRevoked =>
                VestedAt(schedule[b], Until(schedule[b], sequence)) = paid[b] + stranded[b]

VInv ==
    /\ TypeOK
    /\ paid \in [Address -> Int] /\ returned \subseteq Address /\ stranded \in [Address -> Int]
    /\ \A b \in Address : ScheduleSound(b)
    /\ RevokedIsSplit

LEMMA VestedUntil ==
    \A s : effective_now(s) = Until(s, sequence)
           /\ vested_for_schedule(s) = VestedAt(s, Until(s, sequence))
BY VestedNow DEF effective_now, Until

LEMMA UntilIsTime ==
    ASSUME NEW s \in VestingSchedule, NEW now \in Nat
    PROVE  Until(s, now) \in Nat /\ \A later \in Nat : now <= later => Until(s, now) <= Until(s, later)
BY VestingAssumption DEF Until, VestingSchedule, Ledgers

\* What the treasury receives for a schedule that is revoked.
Unvested(s, now) == s.total - VestedAt(s, Until(s, now))

LEMMA GivenBackIs ==
    GivenBack = [b \in Address |-> IF b \in returned THEN Unvested(schedule[b], sequence) ELSE 0]
BY VestedUntil DEF GivenBack, Unvested

LEMMA GivenBackNext ==
    GivenBack' = [b \in Address |-> IF b \in returned' THEN Unvested(schedule'[b], sequence') ELSE 0]
BY DEF GivenBack, Unvested, vested_for_schedule, effective_now, VestedAt, Until

LEMMA UnvestedType ==
    ASSUME NEW s, Sound(s), NEW now \in Nat
    PROVE  /\ Unvested(s, now) \in 0..s.total /\ s.total \in Nat
           /\ VestedAt(s, Until(s, now)) \in 0..s.total
<1>1. Until(s, now) \in Nat
    BY UntilIsTime DEF Sound
<1>2. VestedAt(s, Until(s, now)) \in 0..s.total
    BY <1>1, VestedGrows
<1>3. s.total \in Nat
    BY ScheduleFields DEF Sound
<1> QED BY <1>2, <1>3 DEF Unvested

LEMMA GivenBackType ==
    ASSUME VInv
    PROVE  GivenBack \in [Address -> Int]
<1>1. ASSUME NEW b \in Address, b \in returned
      PROVE  Unvested(schedule[b], sequence) \in Int
    <2>1. Sound(schedule[b]) /\ sequence \in Nat
        BY <1>1, VestingAssumption DEF VInv, ScheduleSound, TypeOK, Ledgers
    <2> QED BY <2>1, UnvestedType
<1> QED BY <1>1, GivenBackIs

LEMMA VestingInit == Init => VInv
<1> SUFFICES ASSUME Init PROVE VInv
    OBVIOUS
<1>1. TypeOK
    BY VestingAssumption DEF Init, TypeOK, Ledgers
<1>2. \A b \in Address : ScheduleSound(b)
    BY DEF Init, ScheduleSound
<1>3. RevokedIsSplit
    <2>1. GivenBack \in [Address -> Int] /\ \A b \in Address : GivenBack[b] = 0
        BY DEF Init, GivenBack
    <2> QED BY <2>1, SumOfZeros DEF Init, RevokedIsSplit
<1>4. paid \in [Address -> Int] /\ returned \subseteq Address /\ stranded \in [Address -> Int]
    BY DEF Init
<1> QED BY <1>1, <1>2, <1>3, <1>4 DEF VInv

\* The treasury counts what it counted before when nothing it counts moves.
LEMMA SplitKept ==
    ASSUME VInv, treasuryBalance' = treasuryBalance, returned' = returned,
           \A b \in returned : Unvested(schedule'[b], sequence') = Unvested(schedule[b], sequence)
    PROVE  RevokedIsSplit'
<1>1. GivenBack' = GivenBack
    BY GivenBackIs, GivenBackNext
<1> QED BY <1>1 DEF VInv, RevokedIsSplit

\* One schedule after a step, told from its state before.
SoundNext(b) ==
    IF schedule'[b] = NoSchedule THEN paid'[b] = 0 /\ b \notin returned'
    ELSE /\ Sound(schedule'[b])
         /\ schedule'[b].revoked_at # NotRevoked => schedule'[b].revoked_at <= sequence'
         /\ paid'[b] = schedule'[b].claimed
         /\ schedule'[b].claimed <= VestedAt(schedule'[b], Until(schedule'[b], sequence'))
         /\ b \in returned' => schedule'[b].revoked_at # NotRevoked
         /\ schedule'[b].revoked_at # NotRevoked =>
                VestedAt(schedule'[b], Until(schedule'[b], sequence')) = paid'[b] + stranded'[b]

LEMMA SoundPrimed ==
    ASSUME \A b \in Address : SoundNext(b)
    PROVE  (\A b \in Address : ScheduleSound(b))'
BY DEF SoundNext, ScheduleSound, Sound

\* A schedule pays no more than its total.
LEMMA ClaimedWithinTotal ==
    ASSUME sequence' \in Ledgers, \A b \in Address : SoundNext(b)
    PROVE  \A a \in Address : schedule'[a] # NoSchedule => schedule'[a].claimed <= schedule'[a].total
<1> TAKE a \in Address
<1> HAVE schedule'[a] # NoSchedule
<1>1. Sound(schedule'[a]) /\ sequence' \in Nat
    BY VestingAssumption DEF SoundNext, Ledgers
<1>2. /\ VestedAt(schedule'[a], Until(schedule'[a], sequence')) \in 0..schedule'[a].total
      /\ schedule'[a].total \in Nat /\ schedule'[a].claimed \in Nat
    BY <1>1, UnvestedType, ScheduleFields DEF Sound
<1> QED BY <1>2 DEF SoundNext

\* The state before a step, for one account.
LEMMA Before ==
    ASSUME VInv, NEW b \in Address
    PROVE  /\ sequence \in Nat /\ sequence \in Ledgers
           /\ schedule[b] # NoSchedule => Sound(schedule[b])
           /\ schedule[b] # NoSchedule => paid[b] = schedule[b].claimed
           /\ ScheduleSound(b)
BY VestingAssumption DEF VInv, TypeOK, Ledgers, ScheduleSound

LEMMA VestingInitialize ==
    ASSUME VInv, NEW auth \in Address, NEW a \in Address, NEW t \in Address, initialize(auth, a, t)
    PROVE  VInv'
<1>1. TypeOK' /\ paid' \in [Address -> Int] /\ returned' \subseteq Address /\ stranded' \in [Address -> Int]
    BY VestingAssumption DEF VInv, TypeOK, initialize
<1>2. \A b \in Address : SoundNext(b)
    BY DEF VInv, ScheduleSound, SoundNext, initialize
<1>3. RevokedIsSplit'
    <2>1. PICK g : g = GivenBack'
        OBVIOUS
    <2>2. g \in [Address -> Int] /\ \A b \in Address : g[b] = 0
        BY <2>1, GivenBackNext DEF initialize
    <2>3. SumFunction(g) = 0
        BY <2>2, SumOfZeros
    <2> QED BY <2>1, <2>3 DEF RevokedIsSplit, initialize
<1> QED BY <1>1, <1>2, <1>3, SoundPrimed DEF VInv

LEMMA VestingCreate ==
    ASSUME VInv, NEW auth \in Address, NEW b \in Address, NEW n \in Totals,
           NEW c \in Ledgers, NEW e \in Ledgers, create_schedule(auth, b, n, c, e)
    PROVE  VInv'
<1> DEFINE s == [total |-> n, claimed |-> 0, cliff_ledger |-> c, end_ledger |-> e,
                 revoked_at |-> NotRevoked]
<1>1. n \in 1..I128_MAX /\ 0 \in 0..I128_MAX /\ c < e /\ schedule[b] = NoSchedule
    BY VestingAssumption DEF create_schedule
<1>2. s \in VestingSchedule
    BY <1>1 DEF VestingSchedule
<1>3. Sound(s) /\ s # NoSchedule /\ s.claimed = 0 /\ s.revoked_at = NotRevoked
    BY <1>1, <1>2, VestingAssumption DEF Sound
<1>4. schedule' = [schedule EXCEPT ![b] = s]
    BY DEF create_schedule
<1> HIDE DEF s
<1>5. /\ schedule' \in [Address -> VestingSchedule \cup {NoSchedule}] /\ schedule'[b] = s
      /\ \A x \in Address : x # b => schedule'[x] = schedule[x]
    BY <1>2, <1>4 DEF VInv, TypeOK
<1>6. UNCHANGED <<admin, treasury, treasuryBalance, sequence, paid, returned, stranded>>
    BY DEF create_schedule
<1>7. \A x \in Address : SoundNext(x)
    <2> TAKE x \in Address
    <2>1. CASE x = b
        <3>1. paid[b] = 0 /\ b \notin returned
            BY <1>1 DEF VInv, ScheduleSound
        <3>2. VestedAt(s, Until(s, sequence)) \in 0..s.total /\ s.total \in Nat
            BY <1>3, Before, UnvestedType
        <3> QED BY <1>3, <1>5, <1>6, <2>1, <3>1, <3>2 DEF SoundNext
    <2>2. CASE x # b
        BY <1>5, <1>6, <2>2 DEF VInv, ScheduleSound, SoundNext
    <2> QED BY <2>1, <2>2
<1>8. TypeOK'
    BY <1>5, <1>6, <1>7, ClaimedWithinTotal DEF VInv, TypeOK
<1>9. RevokedIsSplit'
    <2>1. \A x \in returned : x # b /\ x \in Address
        BY <1>1 DEF VInv, ScheduleSound
    <2> QED BY <1>5, <1>6, <2>1, SplitKept
<1> QED BY <1>6, <1>7, <1>8, <1>9, SoundPrimed DEF VInv

\* A claim brings what was claimed up to the curve.
LEMMA VestingClaim ==
    ASSUME VInv, NEW b \in Address, claim(b)
    PROVE  VInv'
<1> DEFINE s == schedule[b]
           v == VestedAt(s, Until(s, sequence))
           r == [s EXCEPT !.claimed = v]
<1>1. /\ s # NoSchedule /\ s.revoked_at = NotRevoked
      /\ schedule' = [schedule EXCEPT ![b] = r]
      /\ paid' = [paid EXCEPT ![b] = @ + (v - s.claimed)]
      /\ UNCHANGED <<admin, treasury, treasuryBalance, sequence, returned, stranded>>
    BY VestedUntil DEF claim
<1>2. Sound(s) /\ sequence \in Nat /\ s \in VestingSchedule
    BY <1>1, Before DEF Sound
<1>3. v \in 0..s.total /\ s.total \in Nat /\ s.total <= I128_MAX /\ s.claimed \in Nat /\ I128_MAX \in Int
    BY <1>2, UnvestedType, ScheduleFields
<1>4. /\ r \in VestingSchedule /\ r.claimed = v /\ r.revoked_at = NotRevoked
      /\ r.total = s.total /\ r.cliff_ledger = s.cliff_ledger /\ r.end_ledger = s.end_ledger
    <2>1. v \in 0..I128_MAX
        BY <1>3
    <2> HIDE DEF v
    <2> QED BY <1>1, <1>2, <2>1 DEF VestingSchedule
<1>5. Sound(r) /\ r # NoSchedule /\ VestedAt(r, Until(r, sequence)) = v
    BY <1>1, <1>2, <1>4, VestingAssumption DEF Sound, VestedAt, Until
<1>6. paid[b] = s.claimed /\ paid \in [Address -> Int]
    BY <1>1, Before DEF VInv
<1> HIDE DEF r, v
<1>7. /\ schedule' \in [Address -> VestingSchedule \cup {NoSchedule}] /\ schedule'[b] = r
      /\ \A x \in Address : x # b => schedule'[x] = schedule[x] /\ paid'[x] = paid[x]
      /\ paid'[b] = v /\ paid' \in [Address -> Int]
    <2>1. v \in Int /\ s.claimed \in Int /\ s.claimed + (v - s.claimed) = v
        BY <1>3
    <2>2. paid'[b] = v /\ paid' \in [Address -> Int]
        BY <1>1, <1>6, <2>1
    <2>3. \A x \in Address : x # b => paid'[x] = paid[x]
        BY <1>1, <1>6
    <2> QED BY <1>1, <1>4, <2>2, <2>3 DEF VInv, TypeOK
<1>8. b \notin returned
    BY <1>1 DEF VInv, ScheduleSound
<1>9. \A x \in Address : SoundNext(x)
    <2> TAKE x \in Address
    <2>1. CASE x = b
        <3>1. v <= v
            BY <1>3
        <3> QED BY <1>1, <1>4, <1>5, <1>7, <1>8, <2>1, <3>1 DEF SoundNext
    <2>2. CASE x # b
        BY <1>1, <1>7, <2>2 DEF VInv, ScheduleSound, SoundNext
    <2> QED BY <2>1, <2>2
<1>10. TypeOK'
    BY <1>1, <1>7, <1>9, ClaimedWithinTotal DEF VInv, TypeOK
<1>11. RevokedIsSplit'
    <2>1. \A x \in returned : x # b /\ x \in Address
        BY <1>8 DEF VInv
    <2> QED BY <1>1, <1>7, <2>1, SplitKept
<1> QED BY <1>1, <1>7, <1>9, <1>10, <1>11, SoundPrimed DEF VInv

\* A revocation stops the clock of b and adds the rest to the treasury.
LEMMA VestingRevoke ==
    ASSUME VInv, NEW auth \in Address, NEW b \in Address, revoke(auth, b)
    PROVE  VInv'
<1> DEFINE s == schedule[b]
           u == Unvested(s, sequence)
           v == VestedAt(s, Until(s, sequence))
           r == [s EXCEPT !.revoked_at = sequence]
<1>1. /\ s # NoSchedule /\ s.revoked_at = NotRevoked
      /\ schedule' = [schedule EXCEPT ![b] = r]
      /\ treasuryBalance + u <= I128_MAX /\ treasuryBalance' = treasuryBalance + u
      /\ returned' = returned \cup {b}
      /\ stranded' = [stranded EXCEPT ![b] = v - s.claimed]
      /\ UNCHANGED <<admin, treasury, sequence, paid>>
    BY VestedUntil DEF revoke, Unvested
<1>2. Sound(s) /\ sequence \in Nat /\ sequence \in Ledgers /\ s \in VestingSchedule
    BY <1>1, Before DEF Sound
<1>3. /\ r \in VestingSchedule /\ r.claimed = s.claimed /\ r.revoked_at = sequence
      /\ r.total = s.total /\ r.cliff_ledger = s.cliff_ledger /\ r.end_ledger = s.end_ledger
    BY <1>2 DEF VestingSchedule
<1>4. sequence # NotRevoked /\ Until(r, sequence) = sequence /\ Until(s, sequence) = sequence
    BY <1>1, <1>2, <1>3, VestingAssumption DEF Until
<1>5. /\ Sound(r) /\ r # NoSchedule /\ Unvested(r, sequence) = u
      /\ VestedAt(r, Until(r, sequence)) = VestedAt(s, Until(s, sequence))
    BY <1>2, <1>3, <1>4, VestingAssumption DEF Sound, VestedAt, Unvested
<1>6. u \in Nat /\ treasuryBalance \in 0..I128_MAX /\ I128_MAX \in Int
    BY <1>2, UnvestedType, VestingAssumption DEF VInv, TypeOK
<1>12. /\ stranded' \in [Address -> Int] /\ v = s.claimed + stranded'[b]
       /\ \A x \in Address : x # b => stranded'[x] = stranded[x]
    <2>1. v \in Int /\ s.claimed \in Int
        BY <1>2, UnvestedType, ScheduleFields
    <2>2. PICK d : d = v - s.claimed
        OBVIOUS
    <2>3. d \in Int /\ v = s.claimed + d
        BY <2>1, <2>2
    <2>4. stranded' = [stranded EXCEPT ![b] = d] /\ stranded \in [Address -> Int]
        BY <1>1, <2>2 DEF VInv
    <2> HIDE DEF v
    <2> QED BY <2>3, <2>4
<1> HIDE DEF r, u
<1>7. /\ schedule' \in [Address -> VestingSchedule \cup {NoSchedule}] /\ schedule'[b] = r
      /\ \A x \in Address : x # b => schedule'[x] = schedule[x]
    BY <1>1, <1>3 DEF VInv, TypeOK
<1>8. \A x \in Address : SoundNext(x)
    <2> TAKE x \in Address
    <2>1. CASE x = b
        <3>1. paid[b] = s.claimed /\ s.claimed <= VestedAt(s, Until(s, sequence)) /\ sequence <= sequence
            BY <1>1, <1>2 DEF VInv, ScheduleSound
        <3>2. VestedAt(r, Until(r, sequence)) = paid[b] + stranded'[b]
            BY <1>5, <1>12, <3>1
        <3> QED BY <1>1, <1>3, <1>4, <1>5, <1>7, <2>1, <3>1, <3>2 DEF SoundNext
    <2>2. CASE x # b
        BY <1>1, <1>7, <1>12, <2>2 DEF VInv, ScheduleSound, SoundNext
    <2> QED BY <2>1, <2>2
<1>9. TypeOK'
    <2>1. treasuryBalance' \in 0..I128_MAX
        BY <1>1, <1>6
    <2> QED BY <1>1, <1>7, <1>8, <2>1, ClaimedWithinTotal DEF VInv, TypeOK
<1>10. RevokedIsSplit'
    <2>1. b \notin returned
        BY <1>1 DEF VInv, ScheduleSound
    <2>2. /\ GivenBack[b] = 0 /\ GivenBack'[b] = u
          /\ \A x \in Address : x # b => GivenBack'[x] = GivenBack[x]
        <3>1. GivenBack[b] = 0
            BY <2>1, GivenBackIs
        <3>2. GivenBack'[b] = Unvested(r, sequence)
            BY <1>1, <1>7, GivenBackNext
        <3>3. \A x \in Address : x # b => GivenBack'[x] = GivenBack[x]
            BY <1>1, <1>7, GivenBackIs, GivenBackNext
        <3> QED BY <1>5, <3>1, <3>2, <3>3
    <2>3. GivenBack \in [Address -> Int]
        BY GivenBackType
    <2>4. GivenBack' \in [Address -> Int]
        <3>1. \A x \in Address : GivenBack'[x] \in Int
            BY <1>6, <2>2, <2>3
        <3>2. GivenBack' = [x \in Address |-> GivenBack'[x]]
            BY GivenBackNext
        <3> QED BY <3>1, <3>2
    <2>5. GivenBack'[b] = GivenBack[b] + u
        BY <1>6, <2>2
    <2>6. SumFunction(GivenBack) = treasuryBalance
        BY DEF VInv, RevokedIsSplit
    <2>7. SumFunction(GivenBack') = treasuryBalance + u
        <3>1. PICK f, g : f = GivenBack /\ g = GivenBack'
            OBVIOUS
        <3>2. /\ f \in [Address -> Int] /\ g \in [Address -> Int]
              /\ u \in Int /\ b \in Address /\ g[b] = f[b] + u
              /\ \A x \in Address : x # b => g[x] = f[x]
            BY <1>1, <1>6, <2>2, <2>3, <2>4, <2>5, <3>1
        <3>3. SumFunction(g) = SumFunction(f) + u
            BY <3>2, SumShifts
        <3> QED BY <2>6, <3>1, <3>3
    <2> QED BY <1>1, <2>7 DEF RevokedIsSplit
<1>11. returned' \subseteq Address /\ paid' \in [Address -> Int]
    BY <1>1 DEF VInv
<1> QED BY <1>8, <1>9, <1>10, <1>11, <1>12, SoundPrimed DEF VInv

\* Time vests: a running schedule vests more, a revoked one the same.
LEMMA VestingCloses ==
    ASSUME VInv, sequence' \in Ledgers, sequence' >= sequence,
           UNCHANGED <<admin, treasury, treasuryBalance, schedule, paid, returned, stranded>>
    PROVE  VInv'
<1>0. sequence \in Nat /\ sequence' \in Nat /\ sequence <= sequence'
    BY VestingAssumption DEF VInv, TypeOK, Ledgers
<1>1. ASSUME NEW b \in Address, schedule[b] # NoSchedule
      PROVE  /\ Until(schedule[b], sequence) \in Nat /\ Until(schedule[b], sequence') \in Nat
             /\ Until(schedule[b], sequence) <= Until(schedule[b], sequence')
             /\ schedule[b].revoked_at # NotRevoked =>
                    Until(schedule[b], sequence') = Until(schedule[b], sequence)
    <2>1. Sound(schedule[b]) /\ schedule[b] \in VestingSchedule
        BY <1>1, Before DEF Sound
    <2>2. schedule[b].revoked_at # NotRevoked =>
              schedule[b].revoked_at \in Nat /\ schedule[b].revoked_at <= sequence
        BY <1>1, <2>1, ScheduleFields, VestingAssumption DEF VInv, ScheduleSound, Ledgers
    <2>3. schedule[b].revoked_at # NotRevoked =>
              Until(schedule[b], sequence') = Until(schedule[b], sequence)
        BY <1>0, <2>2 DEF Until
    <2> QED BY <1>0, <2>1, <2>3, UntilIsTime
<1>2. \A x \in Address : SoundNext(x)
    <2> TAKE x \in Address
    <2>1. CASE schedule[x] = NoSchedule
        BY <2>1 DEF VInv, ScheduleSound, SoundNext
    <2>2. CASE schedule[x] # NoSchedule
        <3> DEFINE s == schedule[x]
        <3>1. Sound(s) /\ s.claimed \in Nat /\ s.total \in Nat
            BY <2>2, Before, ScheduleFields DEF Sound
        <3>2. /\ VestedAt(s, Until(s, sequence)) \in 0..s.total
              /\ VestedAt(s, Until(s, sequence')) \in 0..s.total
              /\ VestedAt(s, Until(s, sequence)) <= VestedAt(s, Until(s, sequence'))
            BY <1>1, <2>2, <3>1, VestedGrows
        <3>3. s.claimed <= VestedAt(s, Until(s, sequence'))
            BY <2>2, <3>1, <3>2 DEF VInv, ScheduleSound
        <3>4. s.revoked_at # NotRevoked => s.revoked_at <= sequence'
            <4>1. s.revoked_at # NotRevoked => s.revoked_at \in Nat /\ s.revoked_at <= sequence
                BY <2>2, <3>1, ScheduleFields, VestingAssumption
                   DEF VInv, ScheduleSound, Ledgers, Sound
            <4> QED BY <1>0, <4>1
        <3>5. s.revoked_at # NotRevoked => Until(s, sequence') = Until(s, sequence)
            BY <1>1, <2>2
        <3> QED BY <2>2, <3>1, <3>3, <3>4, <3>5 DEF VInv, ScheduleSound, SoundNext
    <2> QED BY <2>1, <2>2
<1>3. TypeOK'
    BY <1>2, ClaimedWithinTotal DEF VInv, TypeOK
<1>4. RevokedIsSplit'
    <2>1. \A b \in returned : schedule[b] # NoSchedule /\ schedule[b].revoked_at # NotRevoked
        BY DEF VInv, ScheduleSound
    <2>2. \A b \in returned : Unvested(schedule'[b], sequence') = Unvested(schedule[b], sequence)
        BY <1>1, <2>1 DEF VInv, Unvested
    <2> QED BY <2>2, SplitKept
<1> QED BY <1>2, <1>3, <1>4, SoundPrimed DEF VInv

LEMMA VestingStep == VInv /\ [Next]_vars => VInv'
<1> SUFFICES ASSUME VInv, [Next]_vars PROVE VInv'
    OBVIOUS
<1>1. ASSUME NEW auth \in Address, NEW a \in Address, NEW t \in Address, initialize(auth, a, t)
      PROVE  VInv'
    BY <1>1, VestingInitialize
<1>2. ASSUME NEW auth \in Address, NEW b \in Address, NEW n \in Totals,
             NEW c \in Ledgers, NEW e \in Ledgers, create_schedule(auth, b, n, c, e)
      PROVE  VInv'
    BY <1>2, VestingCreate
<1>3. ASSUME NEW auth \in Address, NEW b \in Address, revoke(auth, b)
      PROVE  VInv'
    BY <1>3, VestingRevoke
<1>4. ASSUME NEW b \in Address, claim(b)
      PROVE  VInv'
    BY <1>4, VestingClaim
<1>5. CASE CloseLedger
    <2>1. sequence' \in Ledgers /\ sequence' >= sequence
        BY <1>5, VestingAssumption DEF CloseLedger, VInv, TypeOK, Ledgers
    <2> QED BY <1>5, <2>1, VestingCloses DEF CloseLedger
<1>6. CASE UNCHANGED vars
    <2>1. sequence' \in Ledgers /\ sequence' >= sequence
        BY <1>6, VestingAssumption DEF vars, VInv, TypeOK, Ledgers
    <2> QED BY <1>6, <2>1, VestingCloses DEF vars
<1> QED BY <1>1, <1>2, <1>3, <1>4, <1>5, <1>6 DEF Next, Invoke

\* Whatever is granted, claimed, revoked and re-initialized in whatever order:
\* a beneficiary has received what the schedule records and never more than
\* has vested, the treasury holds what the revoked schedules will never vest,
\* and what a revocation found vested and unclaimed is paid to nobody.
THEOREM GrantsArePaidReturnedOrStranded == Spec => []PaidReturnedOrStranded
<1>1. VInv => PaidReturnedOrStranded
    <2> SUFFICES ASSUME VInv, NEW b \in Address, schedule[b] # NoSchedule
                 PROVE  /\ paid[b] = schedule[b].claimed
                        /\ paid[b] <= vested_for_schedule(schedule[b])
                        /\ schedule[b].revoked_at # NotRevoked =>
                               vested_for_schedule(schedule[b]) = paid[b] + stranded[b]
        BY DEF VInv, PaidReturnedOrStranded, PaidIsVested, StrandedForGood
    <2> QED BY VestedUntil DEF VInv, ScheduleSound
<1> QED BY <1>1, VestingInit, VestingStep, PTL DEF Spec

-----------------------------------------------------------------------------
(* The locked vault.                                                       *)

LInv ==
    /\ balance \in [Address -> Int]
    /\ unlock \in [Address -> (0..U32_MAX) \cup {NoUnlock}]
    /\ Lock!LockedOrEmpty

LEMMA LockInit == Lock!Init => LInv
BY VestingAssumption DEF Lock!Init, LInv, Lock!LockedOrEmpty

LEMMA LockStep == LInv /\ [Lock!Next]_(Lock!vars) => LInv'
<1> SUFFICES ASSUME LInv, [Lock!Next]_(Lock!vars) PROVE LInv'
    OBVIOUS
<1>1. ASSUME NEW u \in Address, NEW n \in Amounts, NEW s \in 0..U32_MAX, Lock!deposit(u, n, s)
      PROVE  LInv'
    <2>1. balance[u] + n \in Int
        BY LockAssumption DEF LInv
    <2>2. balance' \in [Address -> Int]
        BY <1>1, <2>1 DEF LInv, Lock!deposit
    <2>3. unlock' = [unlock EXCEPT ![u] = s] /\ \A x \in Address : x # u => balance'[x] = balance[x]
        BY <1>1 DEF LInv, Lock!deposit
    <2> QED BY <2>2, <2>3 DEF LInv, Lock!LockedOrEmpty
<1>2. ASSUME NEW u \in Address, Lock!withdraw(u)
      PROVE  LInv'
    BY <1>2 DEF LInv, Lock!LockedOrEmpty, Lock!withdraw
<1>3. CASE Lock!CloseLedger \/ UNCHANGED Lock!vars
    BY <1>3 DEF LInv, Lock!LockedOrEmpty, Lock!CloseLedger, Lock!vars
<1> QED BY <1>1, <1>2, <1>3 DEF Lock!Next

\* Whatever is deposited, of either sign, and however often the lock is
\* overwritten, no balance is left without the unlock sequence that withdraw
\* asks for.
THEOREM BalancesAreUnlockable == Lock!Spec => []LockedOrEmpty
<1>1. LInv => LockedOrEmpty
    BY DEF LInv, LockedOrEmpty
<1> QED BY <1>1, LockInit, LockStep, PTL DEF Lock!Spec

-----------------------------------------------------------------------------
(* The delayed price.                                                      *)

OInv == sequence \in Nat /\ updatedAt \in Nat

LEMMA OracleInit == Oracle!Init => OInv
BY DEF Oracle!Init, OInv

LEMMA OracleStep == OInv /\ [Oracle!Next]_(Oracle!vars) => OInv'
BY DEF OInv, Oracle!Next, Oracle!vars, Oracle!initialize, Oracle!set_price, Oracle!CloseLedger

\* Two reads around one step that closes no ledger.
ReadsAgree ==
    (Oracle!get_price # Panic /\ Oracle!get_price' # Panic /\ sequence' = sequence) =>
        Oracle!get_price' = Oracle!get_price

\* No update can be placed between two reads of one ledger: after it the
\* second read panics.
THEOREM ReadsAlwaysAgree == Oracle!Spec => ReadsAgreeWithinLedger
<1>1. OInv /\ [Oracle!Next]_(Oracle!vars) => [ReadsAgree]_(Oracle!vars)
    <2> SUFFICES ASSUME OInv, Oracle!Next PROVE ReadsAgree
        OBVIOUS
    <2>1. ASSUME NEW auth \in Address, NEW a \in Address, Oracle!initialize(auth, a)
          PROVE  ReadsAgree
        BY <2>1 DEF Oracle!initialize, ReadsAgree, Oracle!get_price
    <2>2. ASSUME NEW a \in Address, NEW p \in Prices, Oracle!set_price(a, p)
          PROVE  ReadsAgree
        <3>1. sequence' < updatedAt' + MIN_DELAY
            BY <2>2, OracleAssumption DEF Oracle!set_price, OInv
        <3> QED BY <3>1 DEF ReadsAgree, Oracle!get_price
    <2>3. CASE Oracle!CloseLedger
        BY <2>3 DEF Oracle!CloseLedger, ReadsAgree, OInv
    <2> QED BY <2>1, <2>2, <2>3 DEF Oracle!Next
<1>2. Oracle!Spec => [][ReadsAgree]_(Oracle!vars)
    BY <1>1, OracleInit, OracleStep, PTL DEF Oracle!Spec
<1> QED BY <1>2, PTL DEF ReadsAgree, ReadsAgreeWithinLedger, Oracle!ReadsAgreeWithinLedger
=============================================================================
