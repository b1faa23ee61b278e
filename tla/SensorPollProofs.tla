-------------------------- MODULE SensorPollProofs --------------------------
(***************************************************************************)
(* The status of the sensors, the average of their readings and the        *)
(* extremes of the day, for every number of devices, of repetitions and of *)
(* tolerated failures.                                                     *)
(***************************************************************************)
EXTENDS SensorPoll, FiniteSetTheorems, WellFoundedInduction, TLAPS

Sta == {"NO_ERR", "TIMEDOUT", "REV_DATA"}

(* Until the limit is passed the counter of the code is the number of      *)
(* failures since the last answer.                                         *)
CountIsFails == \A d \in Dev : fails[d] <= ERR_LIMIT => errCount[d] = fails[d]

(* In the model also the entries that the scan passes over keep the status *)
(* of a device that has never answered.                                    *)
StatusInv ==
  \A d \in Dev : devSta[d] = "NO_ERR" <=> (fails[d] <= ERR_LIMIT /\ IsReading(d, data1[d]))

IInv == TypeOK /\ StatusInv /\ CountIsFails

(* What a request to device d must establish for the invariant to hold.    *)
DeviceInv(d, e, s, r, f) ==
  /\ e \in 0 .. ERR_LIMIT /\ s \in Sta /\ r \in Readings[d] \cup {0}
  /\ r \in Int /\ f \in 0 .. ERR_LIMIT + 1
  /\ s = "NO_ERR" <=> (f <= ERR_LIMIT /\ IsReading(d, r))
  /\ f <= ERR_LIMIT => e = f

ControlTyped ==
  /\ modbus1S \in BOOLEAN
  /\ pc \in {"sleep", "scan", "average"}
  /\ idx \in Dev /\ rep \in 0 .. REP_COUNT - 1
  /\ lcd \in {"idle", "min", "max", "fillMax", "filled", "fillMin"}

DevicesTyped ==
  /\ errCount \in [Dev -> 0 .. ERR_LIMIT]
  /\ devSta \in [Dev -> Sta]
  /\ data1 \in [Dev -> Int] /\ \A d \in Dev : data1[d] \in Readings[d] \cup {0}
  /\ fails \in [Dev -> 0 .. ERR_LIMIT + 1]

DevicesInv == DevicesTyped /\ StatusInv /\ CountIsFails

LEMMA Sizes == /\ DEV_NUM \in Nat /\ DEV_NUM >= 1
               /\ REP_COUNT \in Nat /\ REP_COUNT >= 1 /\ ERR_LIMIT \in Nat
BY SizeAssumption

LEMMA InvParts == IInv <=> (ControlTyped /\ DevicesInv)
BY Zenon DEF IInv, TypeOK, ControlTyped, DevicesInv, DevicesTyped, Sta

LEMMA DeviceInvOf ==
  ASSUME DevicesInv, NEW d \in Dev
  PROVE  DeviceInv(d, errCount[d], devSta[d], data1[d], fails[d])
BY DEF DevicesInv, DevicesTyped, StatusInv, CountIsFails, DeviceInv

(* A change of one device that establishes DeviceInv keeps the invariant.  *)
LEMMA OneDevice ==
  ASSUME DevicesInv, NEW d \in Dev, NEW e, NEW s, NEW r, NEW f,
         DeviceInv(d, e, s, r, f),
         errCount' = [errCount EXCEPT ![d] = e],
         devSta' = [devSta EXCEPT ![d] = s],
         data1' = [data1 EXCEPT ![d] = r],
         fails' = [fails EXCEPT ![d] = f]
  PROVE  DevicesInv'
<1>2. ASSUME NEW x \in Dev
      PROVE  DeviceInv(x, errCount'[x], devSta'[x], data1'[x], fails'[x])
  <2>1. CASE x = d
    BY <2>1 DEF DevicesInv, DevicesTyped
  <2>2. CASE x # d
    <3>1. /\ errCount'[x] = errCount[x] /\ devSta'[x] = devSta[x]
          /\ data1'[x] = data1[x] /\ fails'[x] = fails[x]
      BY <2>2 DEF DevicesInv, DevicesTyped
    <3>2. DeviceInv(x, errCount[x], devSta[x], data1[x], fails[x])
      BY DeviceInvOf
    <3> QED BY <3>1, <3>2
  <2> QED BY <2>1, <2>2
<1>1. DevicesTyped'
  <2>1. /\ errCount' \in [Dev -> 0 .. ERR_LIMIT] /\ devSta' \in [Dev -> Sta]
        /\ data1' \in [Dev -> Int] /\ fails' \in [Dev -> 0 .. ERR_LIMIT + 1]
    BY DEF DevicesInv, DevicesTyped, DeviceInv
  <2>2. \A x \in Dev : data1'[x] \in Readings[x] \cup {0}
    BY <1>2, Zenon DEF DeviceInv
  <2> QED BY <2>1, <2>2, Zenon DEF DevicesTyped
<1>3. StatusInv'
  BY <1>2, Zenon DEF StatusInv, DeviceInv
<1>4. CountIsFails'
  BY <1>2, Zenon DEF CountIsFails, DeviceInv
<1> QED BY <1>1, <1>3, <1>4 DEF DevicesInv

LEMMA NextDeviceType ==
  ASSUME idx \in Dev, NextDevice
  PROVE  idx' \in Dev /\ rep' \in 0 .. REP_COUNT - 1 /\ pc' \in {"sleep", "scan", "average"}
BY Sizes DEF NextDevice, Dev

LEMMA AfterRequestType ==
  ASSUME idx \in Dev, rep \in 0 .. REP_COUNT - 1, pc \in {"sleep", "scan", "average"},
         AfterRequest
  PROVE  idx' \in Dev /\ rep' \in 0 .. REP_COUNT - 1 /\ pc' \in {"sleep", "scan", "average"}
<1>1. CASE rep + 1 < REP_COUNT
  BY <1>1, Sizes DEF AfterRequest
<1>2. CASE ~(rep + 1 < REP_COUNT)
  BY <1>2, NextDeviceType DEF AfterRequest
<1> QED BY <1>1, <1>2

LEMMA FailureKeepsInv ==
  ASSUME IInv, RequestFails
  PROVE  IInv'
<1>1. ControlTyped /\ DevicesInv /\ idx \in Dev
  BY InvParts DEF ControlTyped
<1> DEFINE e == errCount[idx]
           s == devSta[idx]
           r == data1[idx]
           f == fails[idx]
           over == e + 1 > ERR_LIMIT
           e1 == IF over THEN 0 ELSE e + 1
           s1 == IF over THEN "TIMEDOUT" ELSE s
           f1 == IF f > ERR_LIMIT THEN f ELSE f + 1
<1>2. DeviceInv(idx, e, s, r, f)
  BY <1>1, DeviceInvOf
<1>3. DeviceInv(idx, e1, s1, r, f1)
  <2> HIDE DEF e, s, r, f
  <2> QED BY <1>2, Sizes DEF DeviceInv, Sta
<1>4. /\ errCount' = [errCount EXCEPT ![idx] = e1]
      /\ devSta' = [devSta EXCEPT ![idx] = s1]
      /\ data1' = [data1 EXCEPT ![idx] = r]
      /\ fails' = [fails EXCEPT ![idx] = f1]
  BY <1>1 DEF RequestFails, ErrCounted, DevicesInv, DevicesTyped
<1>5. DevicesInv'
  <2> HIDE DEF e1, s1, r, f1
  <2> QED BY <1>1, <1>3, <1>4, OneDevice
<1>6. ControlTyped'
  <2>1. AfterRequest /\ UNCHANGED <<modbus1S, lcd>>
    BY DEF RequestFails, lcdVars
  <2> QED BY <1>1, <2>1, AfterRequestType DEF ControlTyped
<1> QED BY <1>5, <1>6, InvParts, PTL

LEMMA AnswerKeepsInv ==
  ASSUME IInv, NEW r \in Readings[idx], RequestAnswered(r)
  PROVE  IInv'
<1>1. ControlTyped /\ DevicesInv /\ idx \in Dev
  BY InvParts DEF ControlTyped
<1> DEFINE s1 == IF IsReading(idx, r) THEN "NO_ERR" ELSE "REV_DATA"
<1>2. DeviceInv(idx, 0, s1, r, 0)
  BY <1>1, SizeAssumption, ReadingAssumption DEF DeviceInv, Sta
<1>3. /\ errCount' = [errCount EXCEPT ![idx] = 0]
      /\ devSta' = [devSta EXCEPT ![idx] = s1]
      /\ data1' = [data1 EXCEPT ![idx] = r]
      /\ fails' = [fails EXCEPT ![idx] = 0]
  BY Zenon DEF RequestAnswered, Answered
<1>4. DevicesInv'
  <2> HIDE DEF s1
  <2> QED BY <1>1, <1>2, <1>3, OneDevice
<1>5. ControlTyped'
  <2>1. AfterRequest /\ UNCHANGED <<modbus1S, lcd>>
    BY DEF RequestAnswered, lcdVars
  <2> QED BY <1>1, <2>1, AfterRequestType DEF ControlTyped
<1> QED BY <1>4, <1>5, InvParts, PTL

LEMMA SameDevices ==
  ASSUME IInv, UNCHANGED <<errCount, devSta, data1, fails>>, ControlTyped'
  PROVE  IInv'
<1>1. DevicesInv
  BY InvParts
<1>2. DevicesInv'
  BY <1>1 DEF DevicesInv, DevicesTyped, StatusInv, CountIsFails
<1> QED BY <1>2, InvParts, PTL

LEMMA LcdKeepsInv ==
  ASSUME IInv, LcdMidnight \/ LcdFill
  PROVE  IInv'
<1>1. ControlTyped
  BY InvParts
<1>2. /\ UNCHANGED <<modbus1S, pc, idx, rep, errCount, devSta, data1, fails>>
      /\ lcd' \in {"idle", "min", "max", "fillMax", "filled", "fillMin"}
  BY DEF LcdMidnight, LcdFill, LcdLoad, LcdPass, LcdStoreMax, LcdStoreMin, scanVars
<1>3. ControlTyped'
  BY <1>1, <1>2 DEF ControlTyped
<1> QED BY <1>2, <1>3, SameDevices

LEMMA StatusInductive == Spec => []IInv
<1>1. Init => IInv
  <2> SUFFICES ASSUME Init PROVE IInv
    OBVIOUS
  <2>1. ControlTyped
    <3>1. /\ modbus1S = FALSE /\ pc = "sleep" /\ idx = 0 /\ rep = 0 /\ lcd = "idle"
      BY Zenon DEF Init
    <3>2. 0 \in Dev /\ 0 \in 0 .. REP_COUNT - 1
      BY Sizes DEF Dev
    <3> QED BY <3>1, <3>2 DEF ControlTyped
  <2>2. DevicesTyped
    BY SizeAssumption DEF Init, DevicesTyped, Sta
  <2>3. StatusInv /\ CountIsFails
    BY SizeAssumption DEF Init, StatusInv, CountIsFails
  <2> QED BY <2>1, <2>2, <2>3, InvParts DEF DevicesInv
<1>2. IInv /\ [Next]_vars => IInv'
  <2> SUFFICES ASSUME IInv, [Next]_vars PROVE IInv'
    OBVIOUS
  <2>0. ControlTyped
    BY InvParts
  <2>1. CASE Timer1S
    <3>1. /\ UNCHANGED <<errCount, devSta, data1, fails>>
          /\ UNCHANGED <<pc, idx, rep, lcd>> /\ modbus1S' = TRUE
      BY <2>1 DEF Timer1S, scanVars, lcdVars
    <3> QED BY <2>0, <3>1, SameDevices DEF ControlTyped
  <2>2. CASE Wake
    <3>1. /\ UNCHANGED <<errCount, devSta, data1, fails>>
          /\ UNCHANGED <<idx, rep, lcd>> /\ modbus1S' = FALSE
          /\ pc' \in {"sleep", "scan", "average"}
      BY <2>2 DEF Wake, scanVars, lcdVars
    <3> QED BY <2>0, <3>1, SameDevices DEF ControlTyped
  <2>3. CASE SkipDevice
    <3>1. NextDevice /\ UNCHANGED <<errCount, devSta, data1, fails, modbus1S, lcd>>
      BY <2>3 DEF SkipDevice, lcdVars
    <3>2. ControlTyped'
      BY <2>0, <3>1, NextDeviceType DEF ControlTyped
    <3> QED BY <3>1, <3>2, SameDevices
  <2>4. CASE RequestFails
    BY <2>4, FailureKeepsInv
  <2>5. CASE \E r \in Readings[idx] : RequestAnswered(r)
    BY <2>5, AnswerKeepsInv
  <2>6. CASE Average
    <3>1. /\ UNCHANGED <<errCount, devSta, data1, fails>>
          /\ UNCHANGED <<modbus1S, idx, rep, lcd>> /\ pc' = "sleep"
      BY <2>6 DEF Average, scanVars, lcdVars
    <3> QED BY <2>0, <3>1, SameDevices DEF ControlTyped
  <2>7. CASE LcdMidnight \/ LcdFill
    BY <2>7, LcdKeepsInv
  <2>8. CASE UNCHANGED vars
    <3>1. UNCHANGED <<errCount, devSta, data1, fails, modbus1S, pc, idx, rep, lcd>>
      BY <2>8 DEF vars, scanVars, lcdVars
    <3> QED BY <2>0, <3>1, SameDevices DEF ControlTyped
  <2> QED BY <2>1, <2>2, <2>3, <2>4, <2>5, <2>6, <2>7, <2>8 DEF Next, SysMonitor
<1> QED BY <1>1, <1>2, PTL DEF Spec

(* SEN_CurrentIdx and the counters stay in their ranges.                   *)
THEOREM TypeCorrect == Spec => []TypeOK
<1>1. IInv => TypeOK
  BY DEF IInv
<1> QED BY <1>1, StatusInductive, PTL

(* For every table and limit, a device that the scan asks counts as        *)
(* working exactly as long as it has answered, its last answer was a       *)
(* reading and at most ERR_LIMIT requests have failed since; 0 and 0x2710  *)
(* are readings of the devices whose probe is not tested.                  *)
THEOREM StatusTracksFailuresHolds == Spec => []StatusTracksFailures
<1>1. IInv => StatusTracksFailures
  BY SizeAssumption DEF IInv, StatusInv, StatusTracksFailures
<1> QED BY <1>1, StatusInductive, PTL
-----------------------------------------------------------------------------
(* The sum of the readings.  MapThenSumSet is a recursive function over    *)
(* the subsets of its argument.  Its existence and its bounds follow by    *)
(* looking at a smallest set for which they would fail.                    *)
Pick(s) == CHOOSE x \in s : TRUE

(* F adds up f over every set of D, which is closed under taking away.     *)
Adds(F, f, D) ==
  F = [s \in D |-> IF s = {} THEN 0 ELSE f[Pick(s)] + F[s \ {Pick(s)}]]

SubsetsUpTo(S, k) == {s \in SUBSET S : Cardinality(s) <= k}

LEMMA LeastNatural ==
  ASSUME NEW T, T \subseteq Nat, T # {}
  PROVE  \E t \in T : \A u \in T : t <= u
<1> DEFINE R == OpToRel(<, Nat)
<1>1. PICK t \in T : \A u \in T : ~(<<u, t>> \in R)
  BY NatLessThanWellFounded, WFMin
<1>2. ASSUME NEW u \in T PROVE t <= u
  <2>1. SUFFICES ASSUME u < t PROVE FALSE
    OBVIOUS
  <2>2. <<u, t>> \in R
    BY <2>1 DEF OpToRel
  <2> QED BY <1>1, <2>2
<1> QED BY <1>2

LEMMA PickSmaller ==
  ASSUME NEW s, IsFiniteSet(s), s # {}
  PROVE  /\ Pick(s) \in s /\ IsFiniteSet(s \ {Pick(s)})
         /\ Cardinality(s) \in Nat /\ Cardinality(s) >= 1
         /\ Cardinality(s \ {Pick(s)}) = Cardinality(s) - 1
<1>1. Pick(s) \in s
  BY DEF Pick
<1>2. Cardinality(s) \in Nat /\ Cardinality(s) # 0
  BY FS_CardinalityType, FS_EmptySet
<1> QED BY <1>1, <1>2, FS_RemoveElement

(* A function for the sets of at most k elements extends to k + 1.         *)
LEMMA AddsExtends ==
  ASSUME NEW S, IsFiniteSet(S), NEW f, NEW k \in Nat, NEW F,
         Adds(F, f, SubsetsUpTo(S, k))
  PROVE  \E G : Adds(G, f, SubsetsUpTo(S, k + 1))
<1> DEFINE D == SubsetsUpTo(S, k)
           E == SubsetsUpTo(S, k + 1)
           G == [s \in E |-> IF s = {} THEN 0 ELSE f[Pick(s)] + F[s \ {Pick(s)}]]
<1>1. ASSUME NEW s \in E, s # {} PROVE s \ {Pick(s)} \in D
  <2>1. s \in SUBSET S /\ Cardinality(s) <= k + 1
    BY DEF SubsetsUpTo
  <2>2. IsFiniteSet(s)
    BY <2>1, FS_Subset
  <2>3. Cardinality(s) \in Nat /\ Cardinality(s \ {Pick(s)}) = Cardinality(s) - 1
    BY <1>1, <2>2, PickSmaller
  <2>4. Cardinality(s \ {Pick(s)}) <= k
    BY <2>1, <2>3
  <2> QED BY <2>1, <2>4 DEF SubsetsUpTo
<1>2. ASSUME NEW t \in D PROVE t \in E
  <2>1. t \in SUBSET S /\ Cardinality(t) <= k
    BY DEF SubsetsUpTo
  <2>2. Cardinality(t) \in Nat
    BY <2>1, FS_Subset, FS_CardinalityType
  <2> QED BY <2>1, <2>2 DEF SubsetsUpTo
<1>3. F = [s \in D |-> IF s = {} THEN 0 ELSE f[Pick(s)] + F[s \ {Pick(s)}]]
  BY DEF Adds
<1> HIDE DEF D, E
<1>4. ASSUME NEW t \in D PROVE G[t] = F[t]
  BY <1>2, <1>3, <1>4
<1>5. G = [s \in E |-> IF s = {} THEN 0 ELSE f[Pick(s)] + G[s \ {Pick(s)}]]
  <2>1. ASSUME NEW s \in E, s # {} PROVE F[s \ {Pick(s)}] = G[s \ {Pick(s)}]
    BY <1>1, <1>4, <2>1
  <2> HIDE DEF G
  <2>2. G = [s \in E |-> IF s = {} THEN 0 ELSE f[Pick(s)] + F[s \ {Pick(s)}]]
    BY DEF G
  <2> QED BY <2>1, <2>2
<1> QED BY <1>5 DEF Adds, E

LEMMA AddsExists ==
  ASSUME NEW S, IsFiniteSet(S), NEW f
  PROVE  \E F : Adds(F, f, SUBSET S)
<1> DEFINE Missing == {k \in Nat : ~\E F : Adds(F, f, SubsetsUpTo(S, k))}
<1>1. Missing = {}
  <2> SUFFICES ASSUME Missing # {} PROVE FALSE
    OBVIOUS
  <2>1. PICK k \in Missing : \A u \in Missing : k <= u
    <3>1. Missing \subseteq Nat
      OBVIOUS
    <3> HIDE DEF Missing
    <3> QED BY <3>1, LeastNatural
  <2>2. CASE k = 0
    <3> DEFINE F == [s \in {{}} |-> 0]
    <3>1. SubsetsUpTo(S, 0) = {{}}
      <4>1. ASSUME NEW s \in SUBSET S, Cardinality(s) <= 0 PROVE s = {}
        <5>1. IsFiniteSet(s) /\ Cardinality(s) \in Nat
          BY FS_Subset, FS_CardinalityType
        <5> QED BY <4>1, <5>1, FS_EmptySet
      <4> QED BY <4>1, FS_EmptySet DEF SubsetsUpTo
    <3>2. Adds(F, f, {{}})
      BY DEF Adds
    <3> QED BY <2>1, <2>2, <3>1, <3>2
  <2>3. CASE k # 0
    <3>1. k - 1 \in Nat /\ k - 1 \notin Missing /\ (k - 1) + 1 = k
      BY <2>1, <2>3
    <3>2. PICK F : Adds(F, f, SubsetsUpTo(S, k - 1))
      BY <3>1
    <3>3. \E G : Adds(G, f, SubsetsUpTo(S, k))
      BY <3>1, <3>2, AddsExtends
    <3> QED BY <2>1, <3>3
  <2> QED BY <2>2, <2>3
<1>2. Cardinality(S) \in Nat
  BY FS_CardinalityType
<1>3. PICK F : Adds(F, f, SubsetsUpTo(S, Cardinality(S)))
  BY <1>1, <1>2
<1>4. SubsetsUpTo(S, Cardinality(S)) = SUBSET S
  BY FS_Subset DEF SubsetsUpTo
<1> QED BY <1>3, <1>4

(* The sum that the average is computed from.                              *)
LEMMA SumAdds ==
  ASSUME NEW S, IsFiniteSet(S)
  PROVE  \E F : /\ Adds(F, data1, SUBSET S)
                /\ MapThenSumSet(LAMBDA d : data1[d], S) = F[S]
<1> DEFINE F == CHOOSE G : Adds(G, data1, SUBSET S)
<1>1. Adds(F, data1, SUBSET S)
  BY AddsExists
<1>2. MapThenSumSet(LAMBDA d : data1[d], S) = F[S]
  BY Zenon DEF MapThenSumSet, MapThenFoldSet, Adds, Pick
<1> QED BY <1>1, <1>2

(* It lies between the number of its terms times the least and the         *)
(* greatest of them.                                                       *)
LEMMA ProductStep ==
  ASSUME NEW n \in Nat, NEW c \in Int, n >= 1
  PROVE  n * c \in Int /\ (n - 1) * c \in Int /\ n * c = (n - 1) * c + c
OBVIOUS

LEMMA SumBounds ==
  ASSUME NEW S, IsFiniteSet(S), NEW f, NEW F, Adds(F, f, SUBSET S),
         NEW lo \in Int, NEW hi \in Int,
         \A x \in S : f[x] \in Int /\ lo <= f[x] /\ f[x] <= hi
  PROVE  F[S] \in Int /\ Cardinality(S) * lo <= F[S] /\ F[S] <= Cardinality(S) * hi
<1> DEFINE Bounded(s) == /\ F[s] \in Int
                         /\ Cardinality(s) * lo <= F[s] /\ F[s] <= Cardinality(s) * hi
           Bad == {s \in SUBSET S : ~Bounded(s)}
           Counts == {Cardinality(s) : s \in Bad}
<1>1. Bad = {}
  <2> SUFFICES ASSUME Bad # {} PROVE FALSE
    OBVIOUS
  <2>1. \A s \in SUBSET S : IsFiniteSet(s) /\ Cardinality(s) \in Nat
    BY FS_Subset, FS_CardinalityType
  <2>2. Counts \subseteq Nat /\ Counts # {}
    BY <2>1
  <2>3. PICK n \in Counts : \A u \in Counts : n <= u
    <3> HIDE DEF Counts
    <3> QED BY <2>2, LeastNatural
  <2>4. PICK s \in Bad : n = Cardinality(s)
    BY <2>3
  <2>5. s # {}
    <3> SUFFICES ASSUME s = {} PROVE FALSE
      OBVIOUS
    <3>1. F[s] = 0
      BY DEF Adds
    <3>2. Cardinality(s) = 0
      BY FS_EmptySet
    <3> QED BY <2>4, <3>1, <3>2
  <2> DEFINE x == Pick(s)
             r == s \ {Pick(s)}
  <2>6. x \in S /\ r \in SUBSET S /\ n \in Nat /\ n >= 1 /\ Cardinality(r) = n - 1
    BY <2>1, <2>4, <2>5, PickSmaller
  <2>7. F[s] = f[x] + F[r]
    BY <2>4, <2>5 DEF Adds
  <2>8. Bounded(r)
    <3>1. Cardinality(r) < n
      BY <2>6
    <3>2. r \notin Bad
      BY <2>3, <2>6, <3>1
    <3> QED BY <2>6, <3>2
  <2>9. f[x] \in Int /\ lo <= f[x] /\ f[x] <= hi
    BY <2>6
  <2>10. F[r] \in Int /\ (n - 1) * lo <= F[r] /\ F[r] <= (n - 1) * hi
    BY <2>6, <2>8
  <2>11. /\ n * lo \in Int /\ (n - 1) * lo \in Int /\ n * lo = (n - 1) * lo + lo
         /\ n * hi \in Int /\ (n - 1) * hi \in Int /\ n * hi = (n - 1) * hi + hi
    BY <2>6, ProductStep
  <2> HIDE DEF x, r
  <2>12. F[s] \in Int /\ n * lo <= F[s] /\ F[s] <= n * hi
    BY <2>7, <2>9, <2>10, <2>11
  <2> QED BY <2>4, <2>12
<1> QED BY <1>1

-----------------------------------------------------------------------------
(* The average.  Six sensors fit the 16-bit sum up to 109.2 degrees each.  *)
SumsFit ==
  \A d \in Temps \cap Enabled : \A r \in Readings[d] \ {NO_PROBE} :
    Cardinality(Temps \cap Enabled) * r < U16

LEMMA LeastAndGreatest ==
  ASSUME NEW S, S # {}, NEW f, NEW a \in Int, NEW b \in Int, \A x \in S : f[x] \in a .. b
  PROVE  \E d, e \in S : \A x \in S : f[d] <= f[x] /\ f[x] <= f[e]
<1> DEFINE Above == {f[x] - a : x \in S}
           Below == {b - f[x] : x \in S}
<1>1. Above \subseteq Nat /\ Above # {} /\ Below \subseteq Nat /\ Below # {}
  OBVIOUS
<1>2. PICK t \in Above : \A u \in Above : t <= u
  <2> HIDE DEF Above
  <2> QED BY <1>1, LeastNatural
<1>3. PICK d \in S : t = f[d] - a
  BY <1>2
<1>4. PICK v \in Below : \A u \in Below : v <= u
  <2> HIDE DEF Below
  <2> QED BY <1>1, LeastNatural
<1>5. PICK e \in S : v = b - f[e]
  BY <1>4
<1>6. ASSUME NEW x \in S PROVE f[d] <= f[x] /\ f[x] <= f[e]
  <2>1. f[d] - a <= f[x] - a /\ b - f[e] <= b - f[x]
    BY <1>2, <1>3, <1>4, <1>5
  <2> QED BY <2>1
<1> QED BY <1>6

LEMMA QuotientBetween ==
  ASSUME NEW n \in Nat, n >= 1, NEW lo \in Nat, NEW hi \in Nat, NEW s \in Int,
         n * lo <= s, s <= n * hi
  PROVE  s \div n \in Int /\ lo <= s \div n /\ s \div n <= hi
<1> DEFINE q == s \div n
<1>1. q \in Int /\ n * q \in Int /\ n * q <= s /\ s < n * q + n
  BY SMT
<1> HIDE DEF q
<1>2. lo <= q
  <2> SUFFICES ASSUME q + 1 <= lo PROVE FALSE
    BY <1>1
  <2>1. n * (q + 1) <= n * lo /\ n * (q + 1) = n * q + n
    BY <1>1, SMT
  <2> QED BY <1>1, <2>1, SMT
<1>3. q <= hi
  <2> SUFFICES ASSUME hi + 1 <= q PROVE FALSE
    BY <1>1
  <2>1. n * (hi + 1) <= n * q /\ n * (hi + 1) = n * hi + n
    BY <1>1, SMT
  <2> QED BY <1>1, <2>1, SMT
<1> QED BY <1>1, <1>2, <1>3 DEF q

(* The range of a reading.                                                 *)
Lowest == -32768
Highest == 32767
LEMMA ReadingRange ==
  /\ Lowest \in Int /\ Highest \in Int
  /\ \A d \in Dev : \A r \in Readings[d] : r \in Lowest .. Highest
<1>1. Lowest \in Int /\ Highest \in Int
  BY SMT DEF Lowest, Highest
<1>2. ASSUME NEW d \in Dev, NEW r \in Readings[d] PROVE r \in Int /\ Lowest <= r /\ r <= Highest
  BY ReadingAssumption, SMT DEF Lowest, Highest
<1> QED BY <1>1, <1>2

(* The sensors that are averaged have a reading, and there are at most as  *)
(* many as are enabled.                                                    *)
LEMMA LiveSensors ==
  ASSUME IInv
  PROVE  /\ IsFiniteSet(Live) /\ Cardinality(Live) \in Nat
         /\ Live # {} => Cardinality(Live) >= 1
         /\ Cardinality(Temps \cap Enabled) \in Nat
         /\ Cardinality(Live) <= Cardinality(Temps \cap Enabled)
         /\ \A d \in Live : /\ d \in Temps \cap Enabled
                            /\ data1[d] \in Readings[d] \ {NO_PROBE}
                            /\ data1[d] \in Lowest .. Highest
<1>1. IsFiniteSet(Dev)
  BY Sizes, FS_Interval DEF Dev
<1>2. Temps \cap Enabled \in SUBSET Dev
  BY SizeAssumption
<1>3. IsFiniteSet(Temps \cap Enabled)
  BY <1>1, <1>2, FS_Subset
<1>4. Live \in SUBSET (Temps \cap Enabled)
  BY DEF Live
<1>5. IsFiniteSet(Live) /\ Cardinality(Live) <= Cardinality(Temps \cap Enabled)
  BY <1>3, <1>4, FS_Subset
<1>6. Cardinality(Live) \in Nat /\ Cardinality(Temps \cap Enabled) \in Nat
  BY <1>3, <1>5, FS_CardinalityType
<1>7. Live # {} => Cardinality(Live) >= 1
  BY <1>5, <1>6, FS_EmptySet
<1>8. ASSUME NEW d \in Live PROVE d \in Dev /\ data1[d] \in Readings[d] \ {NO_PROBE}
  <2>1. d \in Dev /\ d \in Probed /\ devSta[d] = "NO_ERR"
    BY <1>2, <1>4, SizeAssumption DEF Live
  <2>2. data1[d] \in Readings[d] \cup {0} /\ data1[d] \notin {NO_PROBE, 0}
    BY <2>1, Zenon DEF IInv, TypeOK, StatusInv, IsReading
  <2> QED BY <2>1, <2>2, Zenon
<1>9. ASSUME NEW d \in Live PROVE data1[d] \in Lowest .. Highest
  BY <1>8, ReadingRange
<1> QED BY <1>4, <1>5, <1>6, <1>7, <1>8, <1>9

LiveSum == MapThenSumSet(LAMBDA d : data1[d], Live)

LEMMA LiveSumBounds ==
  ASSUME IInv, NEW lo \in Int, NEW hi \in Int,
         \A x \in Live : lo <= data1[x] /\ data1[x] <= hi
  PROVE  /\ LiveSum \in Int
         /\ Cardinality(Live) * lo <= LiveSum /\ LiveSum <= Cardinality(Live) * hi
<1>1. IsFiniteSet(Live) /\ \A x \in Live : data1[x] \in Int
  BY LiveSensors, ReadingRange
<1>2. \A S : IsFiniteSet(S) => \E F : /\ Adds(F, data1, SUBSET S)
                                     /\ MapThenSumSet(LAMBDA d : data1[d], S) = F[S]
  BY SumAdds, Zenon
<1>3. PICK F : Adds(F, data1, SUBSET Live) /\ LiveSum = F[Live]
  BY <1>1, <1>2, Zenon DEF LiveSum
<1> QED BY <1>1, <1>3, SumBounds

LEMMA AverageBetween ==
  ASSUME IInv, SumsFit, Live # {}, \A x \in Live : data1[x] >= 0
  PROVE  AvgTemp \in Int /\ \E d, e \in Live : data1[d] <= AvgTemp /\ AvgTemp <= data1[e]
<1> DEFINE n == Cardinality(Live)
           N == Cardinality(Temps \cap Enabled)
<1>1. /\ n \in Nat /\ n >= 1 /\ N \in Nat /\ n <= N
      /\ \A x \in Live : /\ x \in Temps \cap Enabled
                         /\ data1[x] \in Readings[x] \ {NO_PROBE}
                         /\ data1[x] \in Lowest .. Highest
  BY LiveSensors
<1>2. PICK d \in Live, e \in Live :
        \A x \in Live : data1[d] <= data1[x] /\ data1[x] <= data1[e]
  BY <1>1, ReadingRange, LeastAndGreatest
<1> DEFINE lo == data1[d]
           hi == data1[e]
<1>3. lo \in Nat /\ hi \in Nat /\ hi <= Highest
  BY <1>1, ReadingRange
<1>4. N * hi < U16
  BY <1>1 DEF SumsFit
<1>5. LiveSum \in Int /\ n * lo <= LiveSum /\ LiveSum <= n * hi
  BY <1>2, <1>3, LiveSumBounds
<1>6. AvgTemp = I16((LiveSum % U16) \div n)
  BY DEF AvgTemp, LiveSum
<1> HIDE DEF n, N, lo, hi
<1>7. n * lo >= 0 /\ n * hi <= N * hi /\ n * hi \in Int /\ N * hi \in Int /\ n * lo \in Int
  BY <1>1, <1>3, SMT
<1>8. 0 <= LiveSum /\ LiveSum < U16
  BY <1>4, <1>5, <1>7, SMT DEF U16
<1>9. LiveSum % U16 = LiveSum
  BY <1>5, <1>8, SMT DEF U16
<1>10. LiveSum \div n \in Int /\ lo <= LiveSum \div n /\ LiveSum \div n <= hi
  BY <1>1, <1>3, <1>5, QuotientBetween
<1>11. AvgTemp = LiveSum \div n
  BY <1>3, <1>6, <1>9, <1>10, SMT DEF I16, Highest
<1> QED BY <1>10, <1>11 DEF lo, hi

(* After every averaging, until the next scan or averaging.                *)
LEMMA AverageStep ==
  ASSUME SumsFit, IInv, AverageWithinReadings, [Next]_vars
  PROVE  AverageWithinReadings'
<1>1. CASE Average
  <2>1. avg' = AvgTemp /\ UNCHANGED <<data1, devSta>>
    BY <1>1 DEF Average, scanVars
  <2>2. Live' = Live
    BY <2>1 DEF Live
  <2> QED BY <2>1, <2>2, AverageBetween DEF AverageWithinReadings
<1>2. CASE Timer1S \/ LcdMidnight \/ LcdFill \/ UNCHANGED vars
  <2>1. UNCHANGED <<pc, data1, devSta, avg>>
    BY <1>2 DEF Timer1S, LcdMidnight, LcdFill, LcdLoad, LcdPass, LcdStoreMax, LcdStoreMin, vars,
                scanVars, avgVars
  <2> QED BY <2>1 DEF AverageWithinReadings, Live
<1>3. CASE Wake \/ SkipDevice \/ RequestFails \/ \E r \in Readings[idx] : RequestAnswered(r)
  <2>1. pc' # "sleep"
    BY <1>3 DEF Wake, SkipDevice, RequestFails, RequestAnswered, AfterRequest, NextDevice
  <2> QED BY <2>1 DEF AverageWithinReadings
<1> QED BY <1>1, <1>2, <1>3 DEF Next, SysMonitor

(* For every number of sensors whose readings fit the sum, the average     *)
(* lies between the readings it is made of.                                *)
THEOREM AverageWithinReadingsHolds ==
  ASSUME SumsFit
  PROVE  Spec => []AverageWithinReadings
<1>1. Init => AverageWithinReadings
  <2> SUFFICES ASSUME Init PROVE Live = {}
    BY DEF AverageWithinReadings
  <2> QED BY SizeAssumption DEF Init, Live
<1>2. IInv /\ AverageWithinReadings /\ [Next]_vars => AverageWithinReadings'
  BY AverageStep
<1> QED BY <1>1, <1>2, StatusInductive, PTL DEF Spec

-----------------------------------------------------------------------------
(* The extremes of the day.  The display takes an extreme of 0 for one     *)
(* that is not set, so the theorem is about temperatures above zero.       *)
AboveZero == \A d \in Temps : \A r \in Readings[d] : r > 0

(* What a midnight has begun with is never unset again, and the minimum    *)
(* that waits for its maximum lies below what the maximum becomes.         *)
Positive ==
  /\ avg \in Nat /\ lcdReg \in Nat /\ dayMin \in Int /\ dayMax \in Int
  /\ newDay => avg > 0 /\ dayMin > 0 /\ dayMax > 0 /\ lcd \notin {"fillMax", "fillMin"}
  /\ lcd \in {"min", "max"} => (newDay => lcdReg > 0) /\ (lcdReg > 0 => avg > 0)
Ordered ==
  /\ newDay /\ lcd # "max" => dayMin <= dayMax
  /\ lcd = "max" => dayMin <= lcdReg /\ (lcdReg > 0 => dayMin > 0)
ExtremesInv == Positive /\ Ordered

LEMMA AveragePositive ==
  ASSUME IInv, SumsFit, AboveZero, avg \in Nat
  PROVE  AvgTemp \in Nat /\ (avg > 0 => AvgTemp > 0)
<1>1. CASE Live = {}
  BY <1>1 DEF AvgTemp
<1>2. CASE Live # {}
  <2>1. \A d \in Live : data1[d] \in Int /\ data1[d] > 0
    BY LiveSensors, ReadingRange DEF AboveZero
  <2>2. AvgTemp \in Int /\ \E d \in Live : data1[d] <= AvgTemp
    BY <1>2, <2>1, AverageBetween
  <2> QED BY <2>1, <2>2
<1> QED BY <1>1, <1>2

(* An averaging step never raises the minimum nor lowers the maximum.      *)
LEMMA AverageKeepsExtremes ==
  ASSUME IInv, SumsFit, AboveZero, ExtremesInv, Average
  PROVE  /\ ExtremesInv'
         /\ newDay /\ lcd # "max" => dayMin' <= avg' /\ avg' <= dayMax'
<1>1. avg' \in Nat /\ (avg > 0 => avg' > 0)
  BY AveragePositive DEF Average, ExtremesInv, Positive
<1>2. /\ dayMax' = IF avg' >= dayMax THEN avg' ELSE dayMax
      /\ dayMin' = IF avg' < dayMax /\ avg' <= dayMin THEN avg' ELSE dayMin
      /\ UNCHANGED <<lcd, lcdReg, newDay>>
  BY DEF Average, lcdVars
<1> QED BY <1>1, <1>2 DEF ExtremesInv, Positive, Ordered

LEMMA LcdKeepsExtremes ==
  ASSUME ExtremesInv, LcdMidnight \/ LcdFill
  PROVE  ExtremesInv'
<1> USE DEF avgVars, ExtremesInv, Positive, Ordered
<1>1. CASE LcdLoad("idle", "min")
  BY <1>1 DEF LcdLoad
<1>2. CASE LcdStoreMin("min", "max", lcdReg)
  BY <1>2 DEF LcdStoreMin
<1>3. CASE LcdStoreMax("max", "idle", lcdReg)
  <2>1. /\ lcd = "max" /\ lcd' = "idle" /\ dayMax' = lcdReg /\ lcdReg' = 0
        /\ UNCHANGED <<avg, dayMin>>
    BY <1>3 DEF LcdStoreMax
  <2>2. newDay' => newDay \/ lcdReg # 0
    BY <1>3 DEF LcdStoreMax
  <2>3. newDay' => lcdReg > 0
    BY <2>1, <2>2
  <2> QED BY <2>1, <2>3
<1>4. CASE LcdStoreMax("fillMax", "filled", lcdReg)
  <2>1. /\ lcd = "fillMax" /\ lcd' = "filled" /\ dayMax' = lcdReg /\ lcdReg' = 0
        /\ UNCHANGED <<avg, dayMin>>
    BY <1>4 DEF LcdStoreMax
  <2>2. newDay' => newDay
    BY <1>4 DEF LcdStoreMax
  <2> QED BY <2>1, <2>2
<1>5. CASE \/ dayMax = 0 /\ LcdLoad("idle", "fillMax")
           \/ dayMin = 0 /\ LcdLoad("filled", "fillMin")
           \/ LcdPass("idle", "filled")
           \/ LcdPass("filled", "idle")
  BY <1>5 DEF LcdLoad, LcdPass
<1>6. CASE LcdStoreMin("fillMin", "idle", lcdReg)
  BY <1>6 DEF LcdStoreMin
<1> QED BY <1>1, <1>2, <1>3, <1>4, <1>5, <1>6 DEF LcdMidnight, LcdFill

LEMMA ExtremesInductive ==
  ASSUME SumsFit, AboveZero
  PROVE  Spec => [](IInv /\ ExtremesInv)
<1>1. Init => ExtremesInv
  BY DEF Init, ExtremesInv, Positive, Ordered
<1>2. IInv /\ ExtremesInv /\ [Next]_vars => ExtremesInv'
  <2> SUFFICES ASSUME IInv, ExtremesInv, [Next]_vars PROVE ExtremesInv'
    OBVIOUS
  <2>1. CASE Average
    BY <2>1, AverageKeepsExtremes
  <2>2. CASE LcdMidnight \/ LcdFill
    BY <2>2, LcdKeepsExtremes
  <2>3. CASE \/ Timer1S \/ Wake \/ SkipDevice \/ RequestFails
             \/ (\E r \in Readings[idx] : RequestAnswered(r)) \/ UNCHANGED vars
    <3>1. UNCHANGED <<avg, dayMax, dayMin, lcd, lcdReg, newDay>>
      BY <2>3 DEF Timer1S, Wake, SkipDevice, RequestFails, RequestAnswered, vars, avgVars,
                  lcdVars
    <3> QED BY <3>1 DEF ExtremesInv, Positive, Ordered
  <2> QED BY <2>1, <2>2, <2>3 DEF Next, SysMonitor
<1> QED BY <1>1, <1>2, StatusInductive, PTL DEF Spec

(* For every number of sensors and all temperatures above zero that fit    *)
(* the sum, the extremes bracket the average from the first midnight on.   *)
THEOREM ExtremesBracketHolds ==
  ASSUME SumsFit, AboveZero
  PROVE  Spec => ExtremesBracket
<1>1. IInv /\ ExtremesInv =>
        [(Average /\ newDay /\ lcd # "max") => (dayMin' <= avg' /\ avg' <= dayMax')]_vars
  BY AverageKeepsExtremes
<1> QED BY <1>1, ExtremesInductive, PTL DEF ExtremesBracket
=============================================================================
