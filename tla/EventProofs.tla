----------------------------- MODULE EventProofs -----------------------------
(***************************************************************************)
(* Proofs about the parts of EventPlugins, for every value of the          *)
(* constants.                                                              *)
(***************************************************************************)
EXTENDS EventPlugins, SequenceTheorems, Extrema, TLAPS

-----------------------------------------------------------------------------
(* motion_gate. *)

(* What is remembered of the frames so far: how many have been looked at, the last of them, *)
(* and the rank of the last that differed.                                                  *)
Fed == Seq([scene : GateScenes \cup {"opaque"}, out : BOOLEAN])
Last(i, j) == j \in Gate!Before(i) /\ \A k \in Gate!Before(i) : k <= j
Differing(i) == {j \in Gate!Before(i) : Gate!Differs(j)}
Seen(i) == \/ Gate!Before(i) = {} /\ prev = "none"
           \/ \E j : Last(i, j) /\ prev = fed[j].scene
Opened(i) == \/ Differing(i) = {} /\ gateOpenUntil = 0
             \/ \E j \in Differing(i) : /\ \A k \in Differing(i) : k <= j
                                        /\ gateOpenUntil = Gate!Rank(j) + GateCooldown
GateInv == /\ fed \in Fed /\ frameCount = Gate!Rank(Len(fed) + 1)
           /\ Seen(Len(fed) + 1) /\ Opened(Len(fed) + 1) /\ Gate!OpenForMotion

LEMMA GateCounts == \A S : Gate!Cardinality(S) = Cardinality(S)
  BY DEF Gate!Cardinality, Cardinality, Gate!IsFiniteSet, IsFiniteSet

(* The frames before an earlier one are fewer. *)
LEMMA Ranks ==
  ASSUME NEW i \in Nat, NEW j \in Nat
  PROVE  /\ Gate!Before(i) \subseteq 1..i - 1 /\ IsFiniteSet(Gate!Before(i))
         /\ Gate!Rank(i) = Cardinality(Gate!Before(i)) /\ Gate!Rank(i) \in Nat
         /\ Gate!Rank(i) = 0 <=> Gate!Before(i) = {}
         /\ j <= i => Gate!Before(j) \subseteq Gate!Before(i) /\ Gate!Rank(j) <= Gate!Rank(i)
  <1>1. ASSUME NEW k \in Nat PROVE Gate!Before(k) \subseteq 1..k - 1 /\ IsFiniteSet(Gate!Before(k))
    <2>1. IsFiniteSet(1..k - 1) /\ Gate!Before(k) \subseteq 1..k - 1
      BY FS_Interval DEF Gate!Before
    <2> QED BY <2>1, FS_Subset
  <1>2. Gate!Rank(i) = Cardinality(Gate!Before(i)) /\ Gate!Rank(j) = Cardinality(Gate!Before(j))
    BY GateCounts DEF Gate!Rank
  <1>3. Cardinality(Gate!Before(i)) \in Nat /\ (Cardinality(Gate!Before(i)) = 0 <=> Gate!Before(i) = {})
    BY <1>1, FS_CardinalityType, FS_EmptySet
  <1>4. j <= i => Gate!Before(j) \subseteq Gate!Before(i)
    BY DEF Gate!Before
  <1>5. j <= i => Cardinality(Gate!Before(j)) <= Cardinality(Gate!Before(i))
    BY <1>1, <1>4, FS_Subset
  <1> QED BY <1>1, <1>2, <1>3, <1>4, <1>5

(* What a further frame leaves as it is, and what it counts for. *)
LEMMA Further ==
  ASSUME fed \in Fed, NEW f \in [scene : GateScenes \cup {"opaque"}, out : BOOLEAN],
         fed' = Append(fed, f), NEW n, n = Len(fed) + 1
  PROVE  /\ fed' \in Fed /\ n \in Nat /\ Len(fed') + 1 = n + 1 /\ DOMAIN fed' = 1..n
         /\ DOMAIN fed = 1..n - 1
         /\ fed'[n] = f /\ \A j \in 1..n - 1 : fed'[j] = fed[j]
         /\ \A i \in 1..n : Gate!Before(i)' = Gate!Before(i) /\ Gate!Rank(i)' = Gate!Rank(i)
         /\ \A i \in 1..n - 1 : Gate!Differs(i)' <=> Gate!Differs(i)
         /\ Gate!Before(n + 1)' = IF f.scene = "opaque" THEN Gate!Before(n)
                                  ELSE Gate!Before(n) \cup {n}
         /\ Gate!Rank(n + 1)' = IF f.scene = "opaque" THEN Gate!Rank(n) ELSE Gate!Rank(n) + 1
  <1>1. /\ fed' \in Fed /\ n \in Nat /\ Len(fed') = n /\ DOMAIN fed' = 1..n /\ DOMAIN fed = 1..n - 1
        /\ fed'[n] = f /\ \A j \in 1..n - 1 : fed'[j] = fed[j]
    BY AppendProperties, LenProperties DEF Fed
  <1>2. \A i \in 1..n : Gate!Before(i)' = Gate!Before(i)
    BY <1>1 DEF Gate!Before
  <1>3. \A i \in 1..n : Gate!Rank(i)' = Gate!Rank(i)
    BY <1>2 DEF Gate!Rank
  <1>4. ASSUME NEW i \in 1..n - 1 PROVE Gate!Differs(i)' <=> Gate!Differs(i)
    <2>1. Gate!Before(i)' = Gate!Before(i) /\ fed'[i] = fed[i]
      BY <1>1, <1>2
    <2>2. \A j \in Gate!Before(i) : fed'[j] = fed[j]
      BY <1>1 DEF Gate!Before
    <2> QED BY <2>1, <2>2 DEF Gate!Differs
  <1>5. Gate!Before(n + 1)' = IF f.scene = "opaque" THEN Gate!Before(n) ELSE Gate!Before(n) \cup {n}
    <2>1. n + 1 - 1 = n /\ \A j : j \in 1..n <=> j \in 1..n - 1 \/ j = n
      BY <1>1
    <2> QED BY <1>1, <2>1 DEF Gate!Before
  <1>6. Gate!Rank(n + 1)' = IF f.scene = "opaque" THEN Gate!Rank(n) ELSE Gate!Rank(n) + 1
    <2>1. Gate!Rank(n + 1)' = Cardinality(Gate!Before(n + 1)')
      BY GateCounts DEF Gate!Rank
    <2>2. /\ IsFiniteSet(Gate!Before(n)) /\ n \notin Gate!Before(n)
          /\ Gate!Rank(n) = Cardinality(Gate!Before(n))
      BY <1>1, Ranks DEF Gate!Before
    <2>3. Cardinality(Gate!Before(n) \cup {n}) = Cardinality(Gate!Before(n)) + 1
      BY <2>2, FS_AddElement
    <2> QED BY <1>5, <2>1, <2>2, <2>3
  <1> QED BY <1>1, <1>2, <1>3, <1>4, <1>5, <1>6

LEMMA GateTypes ==
  ASSUME GateInv, GateCooldown \in Nat
  PROVE  frameCount \in Nat /\ gateOpenUntil \in Nat
  <1>1. \A i \in Nat : Gate!Rank(i) \in Nat /\ Gate!Before(i) \subseteq Nat
    <2>1. \A i \in Nat : 1..i - 1 \subseteq Nat
      OBVIOUS
    <2> QED BY <2>1, Ranks
  <1>2. Len(fed) + 1 \in Nat /\ \A i : Differing(i) \subseteq Gate!Before(i)
    BY LenProperties DEF GateInv, Fed, Differing
  <1> DEFINE next == Len(fed) + 1
  <1>3. frameCount = Gate!Rank(next) /\ Opened(next)
    BY DEF GateInv
  <1> HIDE DEF next
  <1>4. frameCount \in Nat
    BY <1>1, <1>2, <1>3 DEF next
  <1>5. ASSUME NEW j \in Differing(next), gateOpenUntil = Gate!Rank(j) + GateCooldown
        PROVE  gateOpenUntil \in Nat
    <2>1. Gate!Rank(j) \in Nat
      BY <1>1, <1>2 DEF next
    <2> QED BY <1>5, <2>1
  <1> QED BY <1>3, <1>4, <1>5 DEF Opened

(* A frame it cannot look into. *)
LEMMA OpaqueStep ==
  ASSUME GateInv, Gate!Opaque
  PROVE  GateInv'
  <1>1. PICK f \in [scene : GateScenes \cup {"opaque"}, out : BOOLEAN] :
          /\ f.scene = "opaque" /\ f.out
          /\ fed \in Fed /\ fed' = Append(fed, f) /\ UNCHANGED <<prev, frameCount, gateOpenUntil>>
    <2>1. [scene |-> "opaque", out |-> TRUE] \in [scene : GateScenes \cup {"opaque"}, out : BOOLEAN]
      OBVIOUS
    <2> QED BY <2>1 DEF GateInv, Gate!Opaque
  <1>2. PICK n : n = Len(fed) + 1
    OBVIOUS
  <1>3. /\ fed' \in Fed /\ n \in Nat /\ Len(fed') + 1 = n + 1 /\ DOMAIN fed' = 1..n
        /\ DOMAIN fed = 1..n - 1
        /\ fed'[n] = f /\ \A j \in 1..n - 1 : fed'[j] = fed[j]
        /\ \A i \in 1..n : Gate!Before(i)' = Gate!Before(i) /\ Gate!Rank(i)' = Gate!Rank(i)
        /\ \A i \in 1..n - 1 : Gate!Differs(i)' <=> Gate!Differs(i)
        /\ Gate!Before(n + 1)' = Gate!Before(n)
        /\ Gate!Rank(n + 1)' = Gate!Rank(n)
    BY <1>1, <1>2, Further
  <1>4. Gate!Before(n) \subseteq 1..n - 1
    BY <1>3, Ranks
  <1>5. frameCount' = Gate!Rank(Len(fed) + 1)'
    BY <1>1, <1>2, <1>3 DEF GateInv
  <1>6. Seen(Len(fed) + 1)'
    BY <1>1, <1>2, <1>3, <1>4 DEF GateInv, Seen, Last
  <1>7. Opened(Len(fed) + 1)'
    <2>1. Differing(n + 1)' = Differing(n)
      BY <1>3, <1>4 DEF Differing
    <2>2. \A j \in Differing(n) : j \in 1..n /\ Gate!Rank(j)' = Gate!Rank(j)
      BY <1>3, <1>4 DEF Differing
    <2> QED BY <1>1, <1>2, <1>3, <2>1, <2>2 DEF GateInv, Opened
  <1>8. Gate!OpenForMotion'
    <2>1. \A i \in 1..n - 1 : i \in 1..n /\ Gate!Before(i) \subseteq 1..n - 1
      BY <1>3, Ranks
    <2>2. \A i \in 1..n - 1 : \A j \in Gate!Before(i) \cup {i} :
             (Gate!Differs(j)' <=> Gate!Differs(j)) /\ Gate!Rank(j)' = Gate!Rank(j)
      BY <1>3, <2>1
    <2> QED BY <1>1, <1>3, <2>1, <2>2 DEF GateInv, Gate!OpenForMotion
  <1> QED BY <1>3, <1>5, <1>6, <1>7, <1>8 DEF GateInv

(* A frame it looks at: the gate is open as far as the last difference says. *)
LEMMA LookStep ==
  ASSUME GateInv, NEW scene \in GateScenes, Gate!OnFrame(scene), GateCooldown \in Nat,
         "none" \notin GateScenes, "opaque" \notin GateScenes
  PROVE  GateInv'
  <1> DEFINE motion == prev # "none" /\ prev # scene
  <1>1. PICK f \in [scene : GateScenes \cup {"opaque"}, out : BOOLEAN] :
          /\ f.scene = scene
          /\ f.out <=> frameCount <= gateOpenUntil'
          /\ gateOpenUntil' = IF motion THEN frameCount + GateCooldown ELSE gateOpenUntil
          /\ prev' = scene /\ frameCount' = frameCount + 1
          /\ fed \in Fed /\ fed' = Append(fed, f)
    <2>1. /\ fed' = Append(fed, [scene |-> scene, out |-> frameCount <= gateOpenUntil'])
          /\ gateOpenUntil' = IF motion THEN frameCount + GateCooldown ELSE gateOpenUntil
          /\ prev' = scene /\ frameCount' = frameCount + 1 /\ fed \in Fed
      BY DEF GateInv, Gate!OnFrame, Gate!Remembers
    <2>2. CASE frameCount <= gateOpenUntil'
      <3> WITNESS [scene |-> scene, out |-> TRUE] \in [scene : GateScenes \cup {"opaque"}, out : BOOLEAN]
      <3> QED BY <2>1, <2>2
    <2>3. CASE ~(frameCount <= gateOpenUntil')
      <3>1. fed' = Append(fed, [scene |-> scene, out |-> FALSE])
        <4>1. frameCount \in Nat /\ gateOpenUntil \in Nat
          BY GateTypes
        <4>2. (frameCount <= gateOpenUntil') = FALSE
          BY <2>1, <2>3, <4>1
        <4> QED BY <2>1, <4>2
      <3> WITNESS [scene |-> scene, out |-> FALSE] \in [scene : GateScenes \cup {"opaque"}, out : BOOLEAN]
      <3> QED BY <2>1, <2>3, <3>1
    <2> QED BY <2>2, <2>3
  <1>2. PICK n : n = Len(fed) + 1
    OBVIOUS
  <1>3. /\ fed' \in Fed /\ n \in Nat /\ Len(fed') + 1 = n + 1 /\ DOMAIN fed' = 1..n
        /\ DOMAIN fed = 1..n - 1
        /\ fed'[n] = f /\ \A j \in 1..n - 1 : fed'[j] = fed[j]
        /\ \A i \in 1..n : Gate!Before(i)' = Gate!Before(i) /\ Gate!Rank(i)' = Gate!Rank(i)
        /\ \A i \in 1..n - 1 : Gate!Differs(i)' <=> Gate!Differs(i)
        /\ Gate!Before(n + 1)' = Gate!Before(n) \cup {n}
        /\ Gate!Rank(n + 1)' = Gate!Rank(n) + 1
    BY <1>1, <1>2, Further
  <1>4. /\ Gate!Before(n) \subseteq 1..n - 1 /\ Gate!Rank(n) \in Nat
        /\ Gate!Rank(n) = 0 <=> Gate!Before(n) = {}
        /\ \A j \in 1..n : /\ Gate!Rank(j) \in Nat /\ Gate!Rank(j) <= Gate!Rank(n)
                           /\ \A k \in 1..j : Gate!Rank(k) <= Gate!Rank(j)
    <2>1. \A j \in 1..n : j \in Nat /\ j <= n /\ \A k \in 1..j : k \in Nat /\ k <= j
      BY <1>3
    <2> QED BY <1>3, <2>1, Ranks
  <1>5. frameCount = Gate!Rank(n) /\ Seen(n) /\ Opened(n)
    BY <1>2 DEF GateInv
  <1>6. Gate!Differs(n)' <=> motion
    <2>1. \A j \in Gate!Before(n) : j \in DOMAIN fed /\ fed'[j] = fed[j] /\ fed[j].scene # "none"
      <3>1. \A j \in DOMAIN fed : fed[j] \in [scene : GateScenes \cup {"opaque"}, out : BOOLEAN]
        <4> DEFINE R == [scene : GateScenes \cup {"opaque"}, out : BOOLEAN]
        <4>1. fed \in Seq(R)
          BY <1>1 DEF Fed
        <4> HIDE DEF R
        <4>2. \A j \in DOMAIN fed : fed[j] \in R
          BY <4>1, ElementOfSeq, LenProperties
        <4> QED BY <4>2 DEF R
      <3> QED BY <1>3, <1>4, <3>1
    <2>2. \A j, k : Last(n, j) /\ Last(n, k) => j = k
      BY <1>4 DEF Last
    <2>3. Gate!Differs(n)' <=> \E j : Last(n, j) /\ fed[j].scene # scene
      BY <1>1, <1>3, <2>1 DEF Gate!Differs, Last
    <2>4. \A j : Last(n, j) => j \in Gate!Before(n)
      BY DEF Last
    <2>5. CASE Gate!Before(n) = {} /\ prev = "none"
      BY <2>3, <2>4, <2>5
    <2>6. ASSUME NEW j, Last(n, j), prev = fed[j].scene PROVE Gate!Differs(n)' <=> motion
      <3>1. prev # "none"
        BY <2>1, <2>4, <2>6
      <3> QED BY <2>2, <2>3, <2>6, <3>1
    <2> QED BY <1>5, <2>5, <2>6 DEF Seen
  <1>7. frameCount' = Gate!Rank(Len(fed) + 1)'
    BY <1>1, <1>3, <1>5
  <1>8. Seen(Len(fed) + 1)'
    <2>1. Last(n + 1, n)'
      BY <1>3, <1>4 DEF Last
    <2> QED BY <1>1, <1>3, <2>1 DEF Seen
  <1>9. Differing(n + 1)' = IF motion THEN Differing(n) \cup {n} ELSE Differing(n)
    BY <1>3, <1>4, <1>6 DEF Differing
  <1>10. \A j \in Differing(n) : j \in 1..n - 1 /\ j \in 1..n /\ Gate!Rank(j)' = Gate!Rank(j)
    BY <1>3, <1>4 DEF Differing
  <1>11. Opened(Len(fed) + 1)'
    <2>1. CASE motion
      <3>1. gateOpenUntil' = Gate!Rank(n)' + GateCooldown
        BY <1>1, <1>3, <1>5, <2>1
      <3>2. \A k \in Differing(n + 1)' : k <= n
        BY <1>3, <1>9, <1>10
      <3> QED BY <1>3, <1>9, <2>1, <3>1, <3>2 DEF Opened
    <2>2. CASE ~motion
      BY <1>1, <1>3, <1>5, <1>9, <1>10, <2>2 DEF Opened
    <2> QED BY <2>1, <2>2
  <1>12. f.out <=> \/ Gate!Before(n) = {}
                   \/ \E j \in Gate!Before(n) \cup {n} :
                         Gate!Differs(j)' /\ Gate!Rank(n) <= Gate!Rank(j) + GateCooldown
    <2>1. \A j \in Gate!Before(n) : j \in 1..n - 1
      BY <1>4
    <2>2. CASE motion
      BY <1>1, <1>4, <1>5, <1>6, <2>2
    <2>3. CASE ~motion /\ Differing(n) = {} /\ gateOpenUntil = 0
      <3>1. \A j \in Gate!Before(n) \cup {n} : ~Gate!Differs(j)'
        BY <1>3, <1>6, <2>1, <2>3 DEF Differing
      <3> QED BY <1>1, <1>4, <1>5, <2>3, <3>1
    <2>4. ASSUME ~motion, NEW j \in Differing(n), \A k \in Differing(n) : k <= j,
                 gateOpenUntil = Gate!Rank(j) + GateCooldown
          PROVE  f.out <=> \/ Gate!Before(n) = {}
                           \/ \E i \in Gate!Before(n) \cup {n} :
                                 Gate!Differs(i)' /\ Gate!Rank(n) <= Gate!Rank(i) + GateCooldown
      <3>1. f.out <=> Gate!Rank(n) <= Gate!Rank(j) + GateCooldown
        BY <1>1, <1>5, <2>4
      <3>2. j \in Gate!Before(n) /\ Gate!Differs(j)'
        BY <1>3, <2>1 DEF Differing
      <3>3. ASSUME NEW i \in Gate!Before(n) \cup {n}, Gate!Differs(i)',
                   Gate!Rank(n) <= Gate!Rank(i) + GateCooldown
            PROVE  Gate!Rank(n) <= Gate!Rank(j) + GateCooldown
        <4>1. i \in Differing(n)
          BY <1>3, <1>6, <2>1, <2>4, <3>3 DEF Differing
        <4>2. i \in 1..j /\ j \in 1..n /\ i \in 1..n
          BY <1>10, <2>4, <4>1
        <4>3. Gate!Rank(i) <= Gate!Rank(j)
          BY <1>4, <4>2
        <4> QED BY <1>4, <3>3, <4>2, <4>3
      <3> QED BY <3>1, <3>2, <3>3
    <2> QED BY <1>5, <2>2, <2>3, <2>4 DEF Opened
  <1>13. Gate!OpenForMotion'
    <2>1. \A i \in 1..n - 1 : i \in 1..n /\ Gate!Before(i) \subseteq 1..n - 1
      BY <1>3, Ranks
    <2>2. \A i \in 1..n - 1 : \A j \in Gate!Before(i) \cup {i} :
             (Gate!Differs(j)' <=> Gate!Differs(j)) /\ Gate!Rank(j)' = Gate!Rank(j)
      BY <1>3, <2>1
    <2>3. \A j \in Gate!Before(n) \cup {n} : j \in 1..n /\ Gate!Rank(j)' = Gate!Rank(j)
      <3>1. 1..n - 1 \subseteq 1..n /\ n \in 1..n
        BY <1>2, <1>3
      <3> QED BY <1>3, <1>4, <3>1
    <2>4. n \in 1..n /\ f.scene # "opaque"
      BY <1>1, <1>2, <1>3
    <2>5. ASSUME NEW i \in 1..n - 1
          PROVE  IF fed'[i].scene = "opaque" THEN fed'[i].out
                 ELSE fed'[i].out <=> \/ Gate!Before(i)' = {}
                        \/ \E j \in Gate!Before(i)' \cup {i} :
                               Gate!Differs(j)' /\ Gate!Rank(i)' <= Gate!Rank(j)' + GateCooldown
      <3>1. i \in DOMAIN fed /\ fed'[i] = fed[i] /\ Gate!Before(i)' = Gate!Before(i)
            /\ Gate!Rank(i)' = Gate!Rank(i)
        BY <1>3, <2>1
      <3>2. IF fed[i].scene = "opaque" THEN fed[i].out
            ELSE fed[i].out <=> \/ Gate!Before(i) = {}
                   \/ \E j \in Gate!Before(i) \cup {i} :
                          Gate!Differs(j) /\ Gate!Rank(i) <= Gate!Rank(j) + GateCooldown
        BY <3>1 DEF GateInv, Gate!OpenForMotion
      <3> QED BY <2>2, <3>1, <3>2
    <2>6. fed'[n].out <=> \/ Gate!Before(n)' = {}
                          \/ \E j \in Gate!Before(n)' \cup {n} :
                               Gate!Differs(j)' /\ Gate!Rank(n)' <= Gate!Rank(j)' + GateCooldown
      BY <1>3, <1>12, <2>3, <2>4
    <2>7. \A i \in 1..n : i \in 1..n - 1 \/ i = n
      BY <1>3
    <2> QED BY <1>3, <2>4, <2>5, <2>6, <2>7 DEF Gate!OpenForMotion
  <1> QED BY <1>3, <1>7, <1>8, <1>11, <1>13 DEF GateInv

LEMMA GateHolds ==
  ASSUME GateCooldown \in Nat, "none" \notin GateScenes, "opaque" \notin GateScenes
  PROVE  /\ Gate!Init => GateInv
         /\ GateInv /\ [Gate!Next]_Gate!gateVars => GateInv'
  <1>1. Gate!Init => GateInv
    <2> SUFFICES ASSUME Gate!Init PROVE GateInv
      OBVIOUS
    <2>1. fed = << >> /\ Len(fed) = 0 /\ fed \in Fed /\ DOMAIN fed = {}
      BY DEF Gate!Init, Fed
    <2>2. Gate!Before(1) = {} /\ Gate!Rank(1) = 0
      <3>1. Gate!Before(1) = {}
        BY DEF Gate!Before
      <3> QED BY <3>1, Ranks
    <2>3. Differing(1) = {}
      BY <2>2 DEF Differing
    <2> QED BY <2>1, <2>2, <2>3 DEF GateInv, Seen, Opened, Gate!Init, Gate!OpenForMotion
  <1>2. GateInv /\ UNCHANGED Gate!gateVars => GateInv'
    <2> SUFFICES ASSUME GateInv, UNCHANGED <<prev, frameCount, gateOpenUntil, fed>> PROVE GateInv'
      BY DEF Gate!gateVars
    <2>1. \A i : Gate!Before(i)' = Gate!Before(i)
      BY DEF Gate!Before
    <2>2. \A i : Gate!Rank(i)' = Gate!Rank(i) /\ (Gate!Differs(i)' <=> Gate!Differs(i))
      BY <2>1 DEF Gate!Rank, Gate!Differs
    <2>3. \A i : (Seen(i)' <=> Seen(i)) /\ Differing(i)' = Differing(i)
      BY <2>1, <2>2 DEF Seen, Last, Differing
    <2>4. \A i : Opened(i)' <=> Opened(i)
      BY <2>2, <2>3 DEF Opened
    <2>5. Gate!OpenForMotion'
      BY <2>1, <2>2 DEF GateInv, Gate!OpenForMotion
    <2> QED BY <2>2, <2>3, <2>4, <2>5 DEF GateInv
  <1> QED BY <1>1, <1>2, OpaqueStep, LookStep DEF Gate!Next

-----------------------------------------------------------------------------
(* motion_pixel_diff. *)

(* A plate is of a background that has been learned. *)
Detectors == [sized : BOOLEAN, ready : BOOLEAN, bg : [{"lane", "tail"} -> Int]]
MotionTypes == /\ picture \in [{"lane", "tail"} -> Int]
               /\ detector \in [Instances -> Detectors]
               /\ plate \in [Instances -> [luma : Int, failed : BOOLEAN]]
Learned == \A i \in Instances : plate[i].luma # -1 => detector[i].ready /\ detector[i].sized
MotionInv == MotionTypes /\ Learned /\ Motion!PlateFresh

LEMMA MotionHolds ==
  ASSUME Lit \subseteq [{"lane", "tail"} -> Int], Illum \in Nat, Alpha \in Int
  PROVE  /\ Motion!Init \/ Motion!Off => MotionInv
         /\ MotionInv /\ [Motion!Next]_Motion!motionVars => MotionInv'
  <1> USE DEF MotionInv, MotionTypes, Detectors, Learned, Motion!PlateFresh, Motion!Pixels
  <1>1. ASSUME Motion!Init \/ Motion!Off PROVE MotionInv
    <2>1. picture \in [{"lane", "tail"} -> Int]
      BY <1>1 DEF Motion!Init, Motion!Off
    <2>2. Motion!Unsized \in Detectors
      BY DEF Motion!Unsized
    <2>3. Motion!NoPlate \in [luma : Int, failed : BOOLEAN] /\ Motion!NoPlate.luma = -1
      BY DEF Motion!NoPlate
    <2> QED BY <1>1, <2>1, <2>2, <2>3 DEF Motion!Init, Motion!Off
  <1>2. ASSUME MotionInv, [Motion!Next]_Motion!motionVars PROVE MotionInv'
    <2>1. CASE Motion!SceneChanges
      <3>1. /\ picture' \in [{"lane", "tail"} -> Int]
            /\ UNCHANGED <<detector, plate>>
        BY <2>1 DEF Motion!SceneChanges
      <3>2. \A i \in Instances : (Motion!Luma(detector[i]))' = Motion!Luma(detector[i])
        BY <3>1 DEF Motion!Luma
      <3>3. MotionTypes' /\ Learned'
        BY <1>2, <3>1
      <3>4. Motion!PlateFresh'
        BY <1>2, <3>1, <3>2
      <3> QED BY <3>3, <3>4
    <2>2. ASSUME NEW i \in Instances, Motion!OnFrame(i) PROVE MotionInv'
      <3> DEFINE sized == [detector[i] EXCEPT !.sized = @ \/ ~initialized]
                 d == Motion!detectMotion(sized)
      <3>1. sized \in Detectors /\ sized.ready = detector[i].ready /\ sized.bg = detector[i].bg
            /\ (detector[i].sized => sized.sized)
        <4>1. detector[i] \in Detectors
          BY <1>2
        <4>2. detector[i].sized \in BOOLEAN /\ (detector[i].sized \/ ~initialized) \in BOOLEAN
          BY <4>1
        <4> QED BY <4>1, <4>2
      <3>2. /\ d \in Detectors
            /\ detector[i].ready /\ detector[i].sized => d.ready /\ d.sized
        <4> HIDE DEF sized
        <4>1. CASE ~sized.sized
          BY <4>1, <3>1 DEF Motion!detectMotion
        <4>2. CASE sized.sized /\ ~sized.ready
          BY <4>2, <3>1, <1>2 DEF Motion!detectMotion
        <4>3. CASE sized.sized /\ sized.ready
          <5>1. \A p \in {"lane", "tail"} : Motion!Blend(sized.bg[p], picture[p]) \in Int
            BY <1>2, <3>1 DEF Motion!Blend
          <5> DEFINE new == [p \in {"lane", "tail"} |-> Motion!Blend(sized.bg[p], picture[p])]
          <5>2. new \in [{"lane", "tail"} -> Int] /\ d = [sized EXCEPT !.bg = new]
            BY <4>3, <5>1 DEF Motion!detectMotion
          <5> HIDE DEF new, d
          <5> QED BY <4>3, <3>1, <5>2
        <4> QED BY <4>1, <4>2, <4>3
      <3>3. PICK due \in BOOLEAN, written \in BOOLEAN :
              plate' = [plate EXCEPT ![i] = Motion!Plate(d, @, due, written)]
        BY <2>2 DEF Motion!OnFrame
      <3>4. detector' = [detector EXCEPT ![i] = d] /\ picture' = picture
        BY <2>2 DEF Motion!OnFrame
      <3> HIDE DEF sized, d
      <3>5. Motion!Luma(d) \in Int
        BY <3>2 DEF Motion!Luma
      <3> DEFINE last == plate[i]
                 wanted == Motion!WritesPlate(d, last.luma, due)
                 new == Motion!Plate(d, last, due, written)
      <3>6. last \in [luma : Int, failed : BOOLEAN] /\ plate' = [plate EXCEPT ![i] = new]
        BY <1>2, <3>3
      <3>7. /\ new.luma = IF wanted /\ written THEN Motion!Luma(d) ELSE last.luma
            /\ new.failed = (wanted /\ ~written)
            /\ new \in [luma : Int, failed : BOOLEAN]
        <4>1. wanted \in BOOLEAN
          BY <3>2 DEF Motion!WritesPlate
        <4> QED BY <3>5, <3>6, <4>1 DEF Motion!Plate
      <3> HIDE DEF new
      <3>10. MotionTypes'
        BY <1>2, <3>2, <3>4, <3>6, <3>7
      <3>11. /\ new.luma # -1 => d.ready /\ d.sized
             /\ new.luma # -1 /\ ~new.failed => Motion!Abs(Motion!Luma(d) - new.luma) <= Illum
        <4>1. CASE wanted /\ written
          <5>1. new.luma = Motion!Luma(d)
            BY <4>1, <3>7
          <5> QED BY <4>1, <5>1, <3>5 DEF Motion!WritesPlate, Motion!Abs
        <4>2. CASE ~(wanted /\ written)
          <5>1. new.luma = last.luma /\ (~new.failed => ~wanted)
            BY <4>2, <3>7
          <5>2. last.luma # -1 => d.ready /\ d.sized
            BY <1>2, <3>2
          <5> QED BY <3>5, <3>6, <5>1, <5>2 DEF Motion!WritesPlate, Motion!Abs
        <4> QED BY <4>1, <4>2
      <3>8. \A j \in Instances : j # i => detector'[j] = detector[j] /\ plate'[j] = plate[j]
        BY <1>2, <3>4, <3>6
      <3>9. detector'[i] = d /\ plate'[i] = new
        BY <1>2, <3>4, <3>6
      <3> QED BY <1>2, <3>10, <3>11, <3>8, <3>9 DEF Motion!Luma
    <2>3. CASE UNCHANGED Motion!motionVars
      BY <1>2, <2>3 DEF Motion!motionVars, Motion!Luma
    <2> QED BY <1>2, <2>1, <2>2, <2>3 DEF Motion!Next
  <1> QED BY <1>1, <1>2

-----------------------------------------------------------------------------
(* zones. *)

(* The elements up to k: there is one of every rank. *)
UpTo(ks, k) == {j \in ks : j <= k}

(* In a finite set of naturals there is an element of every rank. *)
LEMMA RankTaken ==
  ASSUME NEW n \in Nat, NEW ks, ks \subseteq 0..n, NEW i \in 1..Cardinality(ks)
  PROVE  \E k \in ks : Cardinality(UpTo(ks, k)) = i
  <1> DEFINE R(k) == UpTo(ks, k)
  <1> USE DEF UpTo
  <1> DEFINE High == {k \in ks : Cardinality(R(k)) >= i}
  <1>1. IsFiniteSet(ks) /\ Cardinality(ks) \in Nat /\ ks # {}
    <2>1. IsFiniteSet(0..n)
      BY FS_Interval
    <2>2. IsFiniteSet(ks)
      BY <2>1, FS_Subset
    <2>3. Cardinality(ks) \in Nat
      BY <2>2, FS_CardinalityType
    <2>4. ks # {}
      <3>1. Cardinality(ks) # 0
        BY <2>3
      <3> QED BY <2>2, <3>1, FS_EmptySet
    <2> QED BY <2>2, <2>3, <2>4
  <1>2. \A k : IsFiniteSet(R(k)) /\ Cardinality(R(k)) \in Nat
    BY <1>1, FS_Subset, FS_CardinalityType
  <1>3. High # {} /\ High \subseteq Nat
    <2> DEFINE m == Max(ks)
    <2>1. m \in ks /\ \A y \in ks : m >= y
      <3> HIDE DEF m
      <3> QED BY <1>1, MaxExists DEF m
    <2> HIDE DEF m
    <2>2. R(m) = ks
      BY <2>1
    <2>3. m \in High
      BY <1>1, <2>1, <2>2
    <2>4. High \subseteq ks /\ ks \subseteq Nat
      OBVIOUS
    <2> HIDE DEF High
    <2> QED BY <2>3, <2>4
  <1> DEFINE k == Min(High)
  <1>4. k \in ks /\ Cardinality(R(k)) >= i /\ \A y \in High : k <= y
    <2> HIDE DEF k
    <2>1. k \in High /\ \A y \in High : k <= y
      <3> HIDE DEF High
      <3> QED BY <1>3, MinExists DEF k
    <2> QED BY <2>1
  <1> HIDE DEF k
  <1>5. ASSUME Cardinality(R(k)) > i PROVE FALSE
    <2> DEFINE L == {j \in ks : j < k}
               m == Max(L)
    <2>1. L = R(k) \ {k} /\ k \in R(k)
      <3>1. \A j \in ks : j \in Nat
        OBVIOUS
      <3>2. \A j \in ks : j < k <=> (j <= k /\ j # k)
        BY <1>4, <3>1
      <3> QED BY <1>4, <3>1, <3>2
    <2>2. IsFiniteSet(L) /\ Cardinality(L) = Cardinality(R(k)) - 1
      <3> HIDE DEF L, R
      <3> QED BY <1>2, <2>1, FS_RemoveElement
    <2>3. Cardinality(L) >= i /\ L # {}
      <3>1. Cardinality(L) >= i
        <4>1. Cardinality(R(k)) \in Nat
          BY <1>2
        <4> HIDE DEF L, R
        <4> QED BY <4>1, <1>5, <2>2
      <3>2. L # {}
        <4> HIDE DEF L
        <4> QED BY <2>2, <3>1, FS_EmptySet
      <3> QED BY <3>1, <3>2
    <2>4. m \in L /\ \A y \in L : m >= y
      <3>1. L \subseteq 0..n
        OBVIOUS
      <3> HIDE DEF L, m
      <3> QED BY <2>3, <3>1, MaxExists DEF m
    <2> HIDE DEF m
    <2>5. R(m) = L
      <3>1. m \in ks /\ m < k /\ \A j \in ks : j < k => m >= j
        BY <2>4
      <3>2. \A j \in ks : j \in Nat
        OBVIOUS
      <3>3. \A j \in ks : j <= m <=> j < k
        BY <1>4, <3>1, <3>2
      <3> QED BY <3>3
    <2>6. m \in High
      BY <2>3, <2>4, <2>5
    <2> QED BY <1>4, <2>4, <2>6
  <1>6. Cardinality(R(k)) = i
    <2> HIDE DEF R
    <2> QED BY <1>2, <1>4, <1>5
  <1> HIDE DEF UpTo
  <1> QED BY <1>4, <1>6

(* No id twice, and an entry in the tree for every zone. *)
NoneTwice(zs) == \A i, j \in DOMAIN zs : zs[i].id = zs[j].id => i = j
Indexed(zs) == [i \in DOMAIN zs |-> Zone!Entry(zs[i])]
ZonesInv == zones \in Seq(Zone!Zone) /\ NoneTwice(zones) /\ spatialIndex = Indexed(zones)

LEMMA ZoneCardinality == \A S : Zone!Cardinality(S) = Cardinality(S)
  BY DEF Zone!Cardinality, Cardinality, Zone!IsFiniteSet, IsFiniteSet

(* The zones that are left are some of those there were. *)
LEMMA WithoutOnce ==
  ASSUME NEW zs \in Seq(Zone!Zone), NoneTwice(zs), NEW id
  PROVE  LET w == Zone!Without(id, zs)
         IN w \in Seq(Zone!Zone) /\ NoneTwice(w) /\ ~Zone!Has(id, w)
  <1> DEFINE ks == {k \in DOMAIN zs : zs[k].id # id}
             w == Zone!Without(id, zs)
             At(i) == Zone!Nth(ks, i)
  <1>1. ks \subseteq 0..Len(zs) /\ Len(zs) \in Nat
    BY LenProperties
  <1>2. ASSUME NEW i \in 1..Cardinality(ks) PROVE At(i) \in ks /\ Cardinality({j \in ks : j <= At(i)}) = i
    <2>1. \E k \in ks : Zone!Cardinality({j \in ks : j <= k}) = i
      <3> HIDE DEF ks
      <3>1. \E k \in ks : Cardinality(UpTo(ks, k)) = i
        <4>1. PICK n \in Nat : ks \subseteq 0..n
          BY <1>1
        <4>2. i \in 1..Cardinality(ks)
          BY <1>2
        <4> QED BY <4>1, <4>2, RankTaken
      <3>2. PICK k \in ks : Cardinality(UpTo(ks, k)) = i
        BY <3>1
      <3> QED BY <3>2, ZoneCardinality DEF UpTo
    <2> HIDE DEF ks
    <2> QED BY <2>1, ZoneCardinality DEF Zone!Nth
  <1>3. Cardinality(ks) \in Nat
    <2> HIDE DEF ks
    <2>1. IsFiniteSet(0..Len(zs))
      BY <1>1, FS_Interval
    <2> QED BY <1>1, <2>1, FS_Subset, FS_CardinalityType
  <1>4. w = [i \in 1..Cardinality(ks) |-> zs[At(i)]]
    BY ZoneCardinality DEF Zone!Without
  <1> HIDE DEF At, w
  <1>5. \A i \in 1..Cardinality(ks) : zs[At(i)] \in Zone!Zone /\ zs[At(i)].id # id
    BY <1>2, ElementOfSeq, LenProperties
  <1>6. w \in Seq(Zone!Zone) /\ DOMAIN w = 1..Cardinality(ks)
    <2> HIDE DEF ks
    <2>1. w \in [1..Cardinality(ks) -> Zone!Zone]
      BY <1>4, <1>5
    <2> QED BY <1>3, <2>1, SeqDef
  <1>7. NoneTwice(w)
    <2>1. SUFFICES ASSUME NEW i \in DOMAIN w, NEW j \in DOMAIN w, w[i].id = w[j].id
                   PROVE  i = j
      BY DEF NoneTwice
    <2>2. zs[At(i)].id = zs[At(j)].id /\ At(i) \in DOMAIN zs /\ At(j) \in DOMAIN zs
      BY <1>2, <1>4, <1>6, <2>1
    <2>3. At(i) = At(j)
      <3> DEFINE x == At(i)
                 y == At(j)
      <3> HIDE DEF x, y
      <3> QED BY <2>2 DEF NoneTwice, x, y
    <2>4. i \in 1..Cardinality(ks) /\ j \in 1..Cardinality(ks)
      BY <1>6
    <2> HIDE DEF ks
    <2>5. /\ Cardinality({x \in ks : x <= At(i)}) = i
          /\ Cardinality({x \in ks : x <= At(j)}) = j
      BY <1>2, <2>4
    <2> QED BY <2>3, <2>5
  <1>8. ~Zone!Has(id, w)
    BY <1>4, <1>5, <1>6 DEF Zone!Has
  <1> QED BY <1>6, <1>7, <1>8 DEF w

(* A zone with an id of its own joins. *)
LEMMA JoinsOnce ==
  ASSUME NEW zs \in Seq(Zone!Zone), NoneTwice(zs), NEW z \in Zone!Zone, ~Zone!Has(z.id, zs)
  PROVE  LET r == Zone!addZone(z, zs, Indexed(zs))
         IN r.zones \in Seq(Zone!Zone) /\ NoneTwice(r.zones) /\ r.index = Indexed(r.zones)
  <1> DEFINE e == Zone!Entry(z)
             E == {Zone!Entry(zs[i]) : i \in DOMAIN zs} \cup {e}
             a == Append(zs, z)
             b == Append(Indexed(zs), e)
  <1>1. /\ Len(zs) \in Nat /\ DOMAIN zs = 1..Len(zs)
    BY LenProperties
  <1>2. Indexed(zs) \in Seq(E) /\ Len(Indexed(zs)) = Len(zs)
    <2>1. Indexed(zs) \in [1..Len(zs) -> E]
      BY <1>1 DEF Indexed
    <2> HIDE DEF E
    <2>2. Indexed(zs) \in Seq(E)
      BY <1>1, <2>1, SeqDef
    <2> QED BY <1>1, <2>1, <2>2, LenProperties
  <1>3. /\ a \in Seq(Zone!Zone) /\ DOMAIN a = 1..(Len(zs) + 1) /\ a[Len(zs) + 1] = z
        /\ \A i \in 1..Len(zs) : a[i] = zs[i]
    <2>1. a \in Seq(Zone!Zone) /\ Len(a) = Len(zs) + 1
      BY AppendProperties
    <2> QED BY <2>1, LenProperties, AppendProperties
  <1>4. /\ b \in [1..(Len(zs) + 1) -> E] /\ b[Len(zs) + 1] = e
        /\ \A i \in 1..Len(zs) : b[i] = Indexed(zs)[i]
    <2>1. e \in E
      OBVIOUS
    <2> HIDE DEF E, e
    <2>2. /\ b \in Seq(E) /\ Len(b) = Len(Indexed(zs)) + 1 /\ b[Len(Indexed(zs)) + 1] = e
          /\ \A i \in 1..Len(Indexed(zs)) : b[i] = Indexed(zs)[i]
      BY <1>2, <2>1, AppendProperties
    <2> HIDE DEF b
    <2>3. b \in [1..Len(b) -> E]
      BY <2>2, LenProperties
    <2> QED BY <1>2, <2>2, <2>3
  <1>5. NoneTwice(a)
    <2>1. \A i \in 1..Len(zs) : zs[i].id # z.id
      BY <1>1 DEF Zone!Has
    <2>2. \A i \in 1..(Len(zs) + 1) : i \in 1..Len(zs) \/ i = Len(zs) + 1
      BY <1>1
    <2> HIDE DEF a
    <2> QED BY <1>1, <1>3, <2>1, <2>2 DEF NoneTwice
  <1>6. b = Indexed(a)
    <2>1. b = [i \in 1..(Len(zs) + 1) |-> b[i]]
      <3> HIDE DEF b, E
      <3> QED BY <1>4
    <2>2. ASSUME NEW i \in 1..(Len(zs) + 1) PROVE b[i] = Zone!Entry(a[i])
      <3>1. CASE i = Len(zs) + 1
        <4> HIDE DEF a, b
        <4> QED BY <3>1, <1>3, <1>4
      <3>2. CASE i \in 1..Len(zs)
        <4> HIDE DEF a, b
        <4>1. Indexed(zs)[i] = Zone!Entry(zs[i])
          BY <3>2, <1>1 DEF Indexed
        <4> QED BY <3>2, <4>1, <1>3, <1>4
      <3>3. i = Len(zs) + 1 \/ i \in 1..Len(zs)
        BY <1>1
      <3> QED BY <3>1, <3>2, <3>3
    <2> HIDE DEF a, b
    <2> QED BY <1>3, <2>1, <2>2 DEF Indexed
  <1> QED BY <1>3, <1>5, <1>6 DEF Zone!addZone

LEMMA ZonesHold ==
  /\ Zone!Init => ZonesInv
  /\ ZonesInv /\ [Zone!Next]_Zone!zonesVars => ZonesInv'
  <1>1. ASSUME Zone!Init PROVE ZonesInv
    <2>1. << >> \in Seq(Zone!Zone) /\ DOMAIN << >> = {}
      BY EmptySeq
    <2>2. Indexed(<< >>) = << >>
      BY <2>1 DEF Indexed
    <2> QED BY <1>1, <2>1, <2>2 DEF Zone!Init, ZonesInv, NoneTwice
  <1>2. ASSUME ZonesInv, [Zone!Next]_Zone!zonesVars PROVE ZonesInv'
    <2> USE <1>2 DEF ZonesInv
    <2>1. ASSUME NEW z \in Zone!Zone, ~Zone!Has(z.id, zones),
                 Zone!Becomes(Zone!addZone(z, zones, spatialIndex))
          PROVE  ZonesInv'
      BY <2>1, JoinsOnce DEF Zone!Becomes
    <2>2. ASSUME NEW id
          PROVE  LET r == Zone!removeZone(id, zones, spatialIndex)
                 IN /\ r.zones \in Seq(Zone!Zone) /\ NoneTwice(r.zones) /\ ~Zone!Has(id, r.zones)
                    /\ r.index = Indexed(r.zones)
      <3>1. CASE ~Zone!Has(id, zones)
        BY <3>1 DEF Zone!removeZone
      <3>2. CASE Zone!Has(id, zones)
        BY <3>2, WithoutOnce DEF Zone!removeZone, Indexed
      <3> QED BY <3>1, <3>2
    <2>3. ASSUME NEW id, Zone!Becomes(Zone!removeZone(id, zones, spatialIndex)) PROVE ZonesInv'
      BY <2>2, <2>3 DEF Zone!Becomes
    <2>4. ASSUME NEW z \in Zone!Zone, Zone!Becomes(Zone!updateZone(z, zones, spatialIndex))
          PROVE  ZonesInv'
      <3> DEFINE r == Zone!removeZone(z.id, zones, spatialIndex)
      <3>1. /\ r.zones \in Seq(Zone!Zone) /\ NoneTwice(r.zones) /\ ~Zone!Has(z.id, r.zones)
            /\ r.index = Indexed(r.zones)
        BY <2>2
      <3>2. Zone!Becomes(Zone!addZone(z, r.zones, r.index))
        BY <2>4 DEF Zone!updateZone
      <3> HIDE DEF r
      <3> QED BY <3>1, <3>2, JoinsOnce DEF Zone!Becomes
    <2>5. ASSUME NEW a \in Zone!Zone, NEW b \in Zone!Zone, a.id # b.id,
                 NEW keyed \in BOOLEAN, Zone!Becomes(Zone!loadZones(keyed, <<a, b>>))
          PROVE  ZonesInv'
      <3>1. <<a, b>> \in Seq(Zone!Zone) /\ NoneTwice(<<a, b>>)
        BY <2>5 DEF NoneTwice
      <3>2. << >> \in Seq(Zone!Zone) /\ NoneTwice(<< >>)
        BY DEF NoneTwice
      <3> QED BY <2>5, <3>1, <3>2 DEF Zone!Becomes, Zone!loadZones, Indexed
    <2>6. CASE UNCHANGED Zone!zonesVars
      BY <2>6 DEF Zone!zonesVars
    <2> QED BY <2>1, <2>3, <2>4, <2>5, <2>6 DEF Zone!Next
  <1> QED BY <1>1, <1>2

LEMMA ZonesFound ==
  ASSUME Points \subseteq Nat, ZonesInv
  PROVE  Zone!FoundWhereTheyAre
  <1> SUFFICES ASSUME NEW id \in Ids, NEW p \in Points
               PROVE  Zone!TimesAtPoint(id, p)
                      = Zone!Cardinality({k \in DOMAIN zones :
                            zones[k].id = id /\ p \in zones[k].polygon})
    BY DEF Zone!FoundWhereTheyAre
  <1> DEFINE first == CHOOSE k \in DOMAIN zones :
                         /\ zones[k].id = id
                         /\ \A m \in 1..(k - 1) : zones[m].id # id
  <1>1. /\ zones \in Seq(Zone!Zone) /\ DOMAIN spatialIndex = DOMAIN zones
        /\ \A i \in DOMAIN zones : spatialIndex[i] = Zone!Entry(zones[i])
    BY DEF ZonesInv, Indexed
  <1>2. \A i \in DOMAIN zones : zones[i] \in Zone!Zone
    BY <1>1, ElementOfSeq, LenProperties
  <1>3. ASSUME NEW i \in DOMAIN zones
        PROVE  /\ spatialIndex[i].id = zones[i].id
               /\ p \in zones[i].polygon => p \in spatialIndex[i].box
    <2>1. /\ spatialIndex[i] = [box |-> Zone!envelope(zones[i].polygon), id |-> zones[i].id]
          /\ zones[i].polygon \subseteq Points
      BY <1>1, <1>2 DEF Zone!Zone, Zone!Entry
    <2>2. ASSUME p \in zones[i].polygon PROVE p \in Zone!envelope(zones[i].polygon)
      <3>1. p <= p
        OBVIOUS
      <3> QED BY <2>2, <3>1 DEF Zone!envelope
    <2> QED BY <2>1, <2>2
  <1>4. ASSUME NEW i \in DOMAIN zones, zones[i].id = id PROVE first = i
    <2>1. \A m \in 1..(i - 1) : m \in DOMAIN zones /\ m # i
      BY <1>1, LenProperties
    <2>2. \A m \in 1..(i - 1) : zones[m].id # id
      BY <1>4, <2>1 DEF ZonesInv, NoneTwice
    <2>3. first \in DOMAIN zones /\ zones[first].id = id
      BY <1>4, <2>2
    <2> HIDE DEF first
    <2> QED BY <1>4, <2>3 DEF ZonesInv, NoneTwice
  <1> HIDE DEF first
  <1>5. {i \in DOMAIN spatialIndex :
            /\ spatialIndex[i].id = id /\ p \in spatialIndex[i].box
            /\ Zone!Has(id, zones) /\ p \in zones[first].polygon}
        = {k \in DOMAIN zones : zones[k].id = id /\ p \in zones[k].polygon}
    BY <1>1, <1>3, <1>4 DEF Zone!Has
  <1> QED BY <1>5 DEF Zone!TimesAtPoint, first

-----------------------------------------------------------------------------
(* detect_onnx: what is shown to the model. *)

(* The time since an object was shown is no longer than that since the last sweep, unless *)
(* an inference may have thrown.                                                          *)
Clocked == /\ detectClock \in Nat /\ swept \in [once : BOOLEAN, at : Nat]
           /\ unseen \in [Objects -> Nat] /\ where \in [Objects -> Cells \cup {0}]
           /\ setup \in DetectorSetups
SinceSweep == IF setup.fails THEN TRUE
              ELSE IF Detect!Roi
              THEN /\ swept.once => swept.at <= detectClock
                   /\ \A o \in Objects :
                         /\ ~swept.once => unseen[o] = 0
                         /\ swept.once => unseen[o] <= detectClock - swept.at
                         /\ unseen[o] < Sweep
              ELSE \A o \in Objects : unseen[o] = 0
StandInv == Clocked /\ SinceSweep

LEMMA StandHolds ==
  ASSUME Sweep \in Nat \ {0}, Gaps \subseteq Nat,
         \A s \in DetectorSetups : /\ ~(s.shared /\ s.frames = "rgb")
                                   /\ s.restarts => s.gate = "whole" \/ s.shared
  PROVE  /\ Detect!Init => StandInv
         /\ StandInv /\ [Detect!Next]_Detect!detectorVars => StandInv'
         /\ StandInv => Detect!StandingSeen
  <1>1. Detect!Init => StandInv
    BY DEF Detect!Init, StandInv, Clocked, SinceSweep
  <1>2. ASSUME StandInv, [Detect!Next]_Detect!detectorVars PROVE StandInv'
    <2> USE <1>2 DEF StandInv, Clocked
    <2>1. ASSUME NEW w \in Detect!Scenes, NEW gap \in Gaps, detectClock + gap <= MaxPts,
                 detectClock' = detectClock + gap, where' = w, UNCHANGED setup,
                 Detect!Roi, Detect!Gated(detectClock + gap, w),
                 Detect!Look(Detect!Shown(detectClock + gap, w), w, gap), ~setup.fails
          PROVE  StandInv'
      <3> DEFINE p == detectClock + gap
      <3>1. p \in Nat /\ w \in [Objects -> Cells \cup {0}] /\ Detect!Roi' /\ gap \in Nat
        BY <2>1 DEF Detect!Scenes, Detect!Roi
      <3>2. \A o \in Objects : unseen'[o] = 0 \/ unseen'[o] = unseen[o] + gap
        BY <2>1 DEF Detect!Look
      <3>3. unseen' \in [Objects -> Nat]
        BY <2>1, <3>1 DEF Detect!Look
      <3>4. CASE Detect!SweepDue(p, w)
        <4>1. swept' = [once |-> TRUE, at |-> p]
          BY <2>1, <3>4 DEF Detect!Gated
        <4>2. \A o \in Objects : w[o] = 0 \/ w[o] \in Detect!Shown(p, w)
          BY <3>1, <3>4 DEF Detect!Shown, Detect!WholePicture
        <4>3. \A o \in Objects : unseen'[o] = 0
          BY <2>1, <4>2 DEF Detect!Look
        <4> QED BY <2>1, <3>1, <3>3, <4>1, <4>3 DEF SinceSweep
      <3>5. CASE ~Detect!SweepDue(p, w)
        <4>1. UNCHANGED swept /\ swept.once /\ p < swept.at + Sweep
          BY <2>1, <3>1, <3>5 DEF Detect!Gated, Detect!SweepDue
        <4>2. \A o \in Objects : unseen'[o] <= p - swept.at
          BY <2>1, <3>1, <3>2, <4>1 DEF SinceSweep
        <4>3. \A o \in Objects : unseen'[o] < Sweep
          BY <3>1, <3>3, <4>1, <4>2
        <4> QED BY <2>1, <3>1, <3>3, <4>1, <4>2, <4>3 DEF SinceSweep
      <3> QED BY <3>4, <3>5
    <2>2. ASSUME NEW w \in Detect!Scenes, NEW gap \in Gaps,
                 detectClock' = detectClock + gap, where' = w, UNCHANGED <<setup, grid, swept>>,
                 ~Detect!Roi, Detect!Look(IF Detect!Passed THEN {} ELSE Detect!WholePicture, w, gap),
                 ~setup.fails
          PROVE  StandInv'
      <3>1. w \in [Objects -> Cells \cup {0}] /\ ~Detect!Roi' /\ gap \in Nat /\ ~Detect!Passed
        BY <2>2 DEF Detect!Scenes, Detect!Roi, Detect!Passed
      <3>2. unseen' = [o \in Objects |-> 0]
        BY <2>2, <3>1 DEF Detect!Look, Detect!WholePicture
      <3> QED BY <2>2, <3>1, <3>2 DEF SinceSweep
    <2>3. CASE Detect!OnFrame /\ setup.fails
      <3>1. PICK w \in Detect!Scenes, gap \in Gaps :
              /\ detectClock' = detectClock + gap /\ where' = w /\ UNCHANGED setup
              /\ \/ Detect!Gated(detectClock + gap, w) \/ Detect!Throws(detectClock + gap, w)
                 \/ UNCHANGED swept
              /\ \E shown : Detect!Look(shown, w, gap)
        BY <2>3 DEF Detect!OnFrame
      <3>2. detectClock' \in Nat /\ where' \in [Objects -> Cells \cup {0}] /\ gap \in Nat
        BY <3>1 DEF Detect!Scenes
      <3>3. swept' \in [once : BOOLEAN, at : Nat]
        <4>1. /\ [once |-> TRUE, at |-> detectClock + gap] \in [once : BOOLEAN, at : Nat]
              /\ swept \in [once : BOOLEAN, at : Nat]
          BY <3>1, <3>2
        <4>2. swept' = swept \/ swept' = [once |-> TRUE, at |-> detectClock + gap]
          BY <3>1 DEF Detect!Gated, Detect!Throws
        <4> QED BY <4>1, <4>2
      <3>4. unseen' \in [Objects -> Nat]
        BY <3>1, <3>2 DEF Detect!Look
      <3> QED BY <2>3, <3>1, <3>2, <3>3, <3>4 DEF SinceSweep
    <2>4. CASE Detect!Reconnect
      BY <2>4 DEF Detect!Reconnect, SinceSweep, Detect!Roi
    <2>5. CASE UNCHANGED Detect!detectorVars
      BY <2>5 DEF Detect!detectorVars, SinceSweep, Detect!Roi
    <2> QED BY <2>1, <2>2, <2>3, <2>4, <2>5 DEF Detect!Next, Detect!OnFrame, Detect!Throws
  <1>3. StandInv => Detect!StandingSeen
    BY DEF StandInv, SinceSweep, Detect!StandingSeen
  <1> QED BY <1>1, <1>2, <1>3

(* The grid is the last picture. *)
Compared == /\ where \in Detect!Scenes
            /\ Detect!Roi => \/ grid = Detect!Unset /\ where = [o \in Objects |-> 0]
                             \/ grid = Detect!Picture(where)

(* An object is where the picture shows it. *)
LEMMA InPicture ==
  ASSUME 0 \notin Objects, 0 \notin Cells, NEW w \in Detect!Scenes, NEW o \in Objects,
         NEW c \in Cells
  PROVE  Detect!Picture(w)[c] = o <=> w[o] = c
  <1>1. \A a, b \in Objects : a # b /\ w[a] = w[b] => w[a] = 0
    BY DEF Detect!Scenes
  <1>2. CASE \E a \in Objects : w[a] = c
    <2>1. PICK d \in Objects : w[d] = c /\ Detect!Picture(w)[c] = d
      BY <1>2 DEF Detect!Picture
    <2>2. w[o] = c => o = d
      BY <1>1, <2>1
    <2> QED BY <2>1, <2>2
  <1>3. CASE ~\E a \in Objects : w[a] = c
    <2>1. Detect!Picture(w)[c] = 0
      BY <1>3 DEF Detect!Picture
    <2> QED BY <1>3, <2>1
  <1> QED BY <1>2, <1>3

(* An object that moves is where the picture has changed. *)
LEMMA ChangedWhereMoved ==
  ASSUME 0 \notin Objects, 0 \notin Cells, Compared, Detect!Roi, NEW w \in Detect!Scenes,
         NEW o \in Objects, w[o] # where[o], where[o] # 0, w[o] # 0
  PROVE  w[o] \in Detect!Changed(w)
  <1>1. w[o] \in Cells /\ where \in Detect!Scenes /\ where[o] \in Cells
    BY DEF Compared, Detect!Scenes
  <1>2. grid = Detect!Picture(where)
    BY DEF Compared
  <1>3. Detect!Picture(w)[w[o]] = o /\ Detect!Picture(where)[w[o]] # o
    BY <1>1, InPicture
  <1>4. grid # Detect!Unset
    BY <1>2, <1>1, <1>3 DEF Detect!Unset, Detect!Picture
  <1> QED BY <1>1, <1>2, <1>3, <1>4 DEF Detect!Changed

LEMMA BoxCovers ==
  ASSUME NEW n \in Nat, NEW S, S \subseteq 1..n, NEW c \in S
  PROVE  c \in UNION Detect!BoundingBox(S)
  <1>0. S \subseteq Nat /\ S \subseteq 0..n /\ S # {}
    OBVIOUS
  <1>1. Min(S) \in S /\ Min(S) <= c
    BY <1>0, MinExists
  <1>2. Max(S) \in S /\ Max(S) >= c
    BY <1>0, MaxExists
  <1>3. c \in Min(S)..Max(S)
    BY <1>1, <1>2
  <1> QED BY <1>3 DEF Detect!BoundingBox, Min, Max, Detect!Min, Detect!Max

LEMMA MovingShown ==
  ASSUME NEW n \in Nat, Cells = 1..n, 0 \notin Objects
  PROVE  /\ Detect!Init => Compared
         /\ Compared /\ [Detect!Next]_Detect!detectorVars =>
               /\ Compared'
               /\ \/ UNCHANGED Detect!detectorVars
                  \/ Detect!Roi /\ setup.gate = "bbox" /\ ~setup.fails =>
                        \A o \in Objects : where'[o] # where[o] /\ where[o] # 0
                                              => unseen'[o] = 0
  <1>0. 0 \notin Cells /\ \A w \in Detect!Scenes : Detect!Changed(w) \subseteq Cells
    BY DEF Detect!Changed
  <1>1. Detect!Init => Compared
    BY DEF Detect!Init, Compared, Detect!Scenes
  <1>2. ASSUME Compared, Detect!Next
        PROVE  /\ Compared'
               /\ Detect!Roi /\ setup.gate = "bbox" /\ ~setup.fails =>
                    \A o \in Objects : where'[o] # where[o] /\ where[o] # 0 => unseen'[o] = 0
    <2>1. ASSUME NEW w \in Detect!Scenes, NEW gap \in Gaps, where' = w, UNCHANGED setup,
                 Detect!Roi, Detect!Gated(detectClock + gap, w),
                 Detect!Look(Detect!Shown(detectClock + gap, w), w, gap)
          PROVE  /\ Compared'
                 /\ setup.gate = "bbox" =>
                    \A o \in Objects : where'[o] # where[o] /\ where[o] # 0 => unseen'[o] = 0
      <3>1. Detect!Roi' /\ grid' = Detect!Picture(where')
        BY <2>1 DEF Detect!Roi, Detect!Gated
      <3>2. Compared'
        BY <2>1, <3>1 DEF Compared
      <3>3. ASSUME setup.gate = "bbox", NEW o \in Objects, w[o] # where[o], where[o] # 0, w[o] # 0
            PROVE  w[o] \in Detect!Shown(detectClock + gap, w)
        <4>1. w[o] \in Detect!Changed(w)
          BY <1>0, <1>2, <2>1, <3>3, ChangedWhereMoved
        <4>2. w[o] \in UNION Detect!BoundingBox(Detect!Changed(w))
          BY <1>0, <4>1, BoxCovers
        <4> QED BY <3>3, <4>2 DEF Detect!Shown, Detect!Regions
      <3>4. ASSUME setup.gate = "bbox", NEW o \in Objects, where'[o] # where[o], where[o] # 0
            PROVE  unseen'[o] = 0
        BY <2>1, <3>3, <3>4 DEF Detect!Look
      <3> QED BY <3>2, <3>4
    <2>2. ASSUME NEW w \in Detect!Scenes, where' = w, UNCHANGED <<setup, grid>>, ~Detect!Roi
          PROVE  Compared' /\ ~Detect!Roi
      BY <2>2 DEF Compared, Detect!Roi
    <2>3. ASSUME NEW w \in Detect!Scenes, NEW gap \in Gaps, where' = w, UNCHANGED setup,
                 Detect!Throws(detectClock + gap, w)
          PROVE  Compared' /\ setup.fails
      BY <2>3 DEF Detect!Throws, Compared, Detect!Roi
    <2>4. CASE Detect!Reconnect
      BY <1>2, <2>4 DEF Detect!Reconnect, Compared, Detect!Roi
    <2> QED BY <1>2, <2>1, <2>2, <2>3, <2>4 DEF Detect!Next, Detect!OnFrame
  <1>3. Compared /\ UNCHANGED Detect!detectorVars => Compared'
    BY DEF Compared, Detect!detectorVars, Detect!Roi
  <1> QED BY <1>1, <1>2, <1>3

-----------------------------------------------------------------------------
(* detect_onnx: the engine its cameras share. *)

(* A camera waits for one picture, which is queued or in the part of the batch that is yet *)
(* to be answered, and once; the rows of that part are of the pictures waited for.         *)
Rowset == [of : Callers \cup {0}, picture : Nat, net : {0} \cup NetSizes]
EngineTypes ==
    /\ nets \in [Callers -> NetSizes]
    /\ engine \in [at : {"waiting", "copying", "answering"}, net : {0} \cup NetSizes,
                   batch : Seq(Callers), done : Nat]
    /\ requests \in Seq(Callers)
    /\ caller \in [Callers -> [at : {"idle", "waiting"}, picture : Nat, answer : Rowset]]
ToAnswer == IF engine.at = "waiting" THEN {} ELSE {i \in DOMAIN engine.batch : i > engine.done}
Once == /\ \A i, j \in DOMAIN requests : requests[i] = requests[j] => i = j
        /\ \A i, j \in ToAnswer : engine.batch[i] = engine.batch[j] => i = j
        /\ \A i \in ToAnswer, j \in DOMAIN requests : engine.batch[i] # requests[j]
Awaited == /\ \A i \in DOMAIN requests : caller[requests[i]].at = "waiting"
           /\ \A i \in ToAnswer : caller[engine.batch[i]].at = "waiting"
Progress == /\ engine.at # "waiting" => engine.done <= Len(engine.batch)
            /\ engine.at = "copying" => engine.done = 0
RowsRight == engine.at = "answering" =>
    \A i \in ToAnswer : device[i] = Engine!Row(engine.batch[i])
Answered == \A c \in Callers : caller[c].picture > 0 =>
    /\ engine.net \in NetSizes
    /\ caller[c].at = "idle" => caller[c].answer = Engine!Row(c)
EngineInv == EngineTypes /\ Once /\ Awaited /\ Progress /\ RowsRight /\ Answered

(* A caller that is idle is queued nowhere, so that its picture is queued once. *)
LEMMA InferStep ==
  ASSUME EngineInv, NEW c \in Callers, Engine!Infer(c)
  PROVE  EngineInv'
  <1> USE DEF EngineInv
  <1>1. /\ caller[c].at = "idle" /\ engine'.at = engine.at /\ engine'.batch = engine.batch
        /\ engine'.done = engine.done /\ engine'.net \in NetSizes
        /\ engine' \in [at : {"waiting", "copying", "answering"}, net : {0} \cup NetSizes,
                        batch : Seq(Callers), done : Nat]
        /\ nets' = nets /\ device' = device /\ ToAnswer' = ToAnswer
    BY DEF Engine!Infer, EngineTypes, ToAnswer
  <1>2. /\ requests' \in Seq(Callers) /\ Len(requests') = Len(requests) + 1
        /\ \A i \in DOMAIN requests : requests'[i] = requests[i]
        /\ requests'[Len(requests) + 1] = c
        /\ DOMAIN requests' = DOMAIN requests \cup {Len(requests) + 1}
        /\ \A i \in DOMAIN requests : i <= Len(requests)
    BY AppendProperties, LenProperties DEF Engine!Infer, EngineTypes
  <1>3. Engine!None \in Rowset
    BY DEF Engine!None, Rowset
  <1>4. /\ caller' \in [Callers -> [at : {"idle", "waiting"}, picture : Nat, answer : Rowset]]
        /\ caller'[c].at = "waiting"
        /\ \A d \in Callers : d # c => caller'[d] = caller[d]
    BY <1>3 DEF Engine!Infer, EngineTypes
  <1>5. /\ \A i \in DOMAIN requests : requests[i] \in Callers /\ requests[i] # c
        /\ \A i \in ToAnswer : engine.batch[i] \in Callers /\ engine.batch[i] # c
    BY <1>1 DEF Awaited, EngineTypes, ToAnswer
  <1>6. EngineTypes'
    BY <1>1, <1>2, <1>4 DEF EngineTypes
  <1>7. Once'
    BY <1>1, <1>2, <1>5 DEF Once
  <1>8. Awaited'
    <2>1. \A j \in DOMAIN requests : caller'[requests'[j]].at = "waiting"
      BY <1>2, <1>4, <1>5 DEF Awaited
    <2>2. \A j \in ToAnswer : caller'[engine'.batch[j]].at = "waiting"
      BY <1>1, <1>4, <1>5 DEF Awaited
    <2> QED BY <1>1, <1>2, <1>4, <2>1, <2>2 DEF Awaited
  <1>9. Progress'
    BY <1>1 DEF Progress
  <1>10. RowsRight'
    <2>1. \A d \in Callers : d # c => Engine!Row(d)' = Engine!Row(d)
      BY <1>1, <1>4 DEF Engine!Row
    <2>2. \A j \in ToAnswer : /\ engine'.batch[j] = engine.batch[j]
                            /\ Engine!Row(engine.batch[j])' = Engine!Row(engine.batch[j])
      BY <1>1, <1>4, <1>5 DEF Engine!Row
    <2> QED BY <1>1, <2>2 DEF RowsRight
  <1>11. Answered'
    BY <1>1, <1>4 DEF Answered, Engine!Row
  <1> QED BY <1>6, <1>7, <1>8, <1>9, <1>10, <1>11

(* The batch is the front of the queue: what waits is the same, and in one place each. *)
LEMMA TakeStep ==
  ASSUME EngineInv, MaxBatch \in Nat, Engine!TakeBatch
  PROVE  EngineInv'
  <1> USE DEF EngineInv
  <1> DEFINE t == Engine!Take
             n == Len(requests)
  <1>1. /\ n \in Nat /\ DOMAIN requests = 1..n /\ t \in 0..n
        /\ \A i \in 1..n : requests[i] \in Callers
    BY DEF EngineTypes, Engine!Take, Engine!Full
  <1>2. /\ engine.at = "waiting" /\ engine'.at = "copying" /\ engine'.done = 0
        /\ engine'.batch = SubSeq(requests, 1, t) /\ engine'.net = engine.net
        /\ requests' = SubSeq(requests, t + 1, n)
        /\ nets' = nets /\ device' = device /\ caller' = caller
        /\ engine' = [engine EXCEPT !.at = "copying", !.done = 0,
                                   !.batch = SubSeq(requests, 1, t)]
    BY DEF Engine!TakeBatch, EngineTypes
  <1> HIDE DEF t, n
  <1>3. /\ SubSeq(requests, 1, t) \in Seq(Callers) /\ Len(SubSeq(requests, 1, t)) = t
        /\ DOMAIN SubSeq(requests, 1, t) = 1..t
        /\ \A i \in 1..t : SubSeq(requests, 1, t)[i] = requests[i]
    <2>1. \A i \in 1..t : requests[i] \in Callers
      BY <1>1
    <2>2. requests \in Seq(Callers)
      BY DEF EngineTypes
    <2> QED BY <1>1, <2>1, <2>2, SubSeqProperties, LenProperties
  <1>4. /\ SubSeq(requests, t + 1, n) \in Seq(Callers)
        /\ DOMAIN SubSeq(requests, t + 1, n) = 1..n - t
        /\ \A i \in 1..n - t : SubSeq(requests, t + 1, n)[i] = requests[t + i]
    <2>1. \A i \in t + 1..n : requests[i] \in Callers
      BY <1>1
    <2>2. requests \in Seq(Callers)
      BY DEF EngineTypes
    <2> QED BY <1>1, <2>1, <2>2, SubSeqProperties, LenProperties
  <1>5. /\ ToAnswer' = 1..t /\ DOMAIN engine'.batch = 1..t /\ DOMAIN requests' = 1..n - t
        /\ \A i \in 1..t : engine'.batch[i] = requests[i] /\ i \in 1..n
        /\ \A i \in 1..n - t : requests'[i] = requests[t + i] /\ t + i \in 1..n
    <2>1. ToAnswer' = 1..t /\ DOMAIN engine'.batch = 1..t
      BY <1>1, <1>2, <1>3 DEF ToAnswer
    <2>2. DOMAIN requests' = 1..n - t
      BY <1>2, <1>4
    <2>3. \A i \in 1..t : engine'.batch[i] = requests[i] /\ i \in 1..n
      BY <1>1, <1>2, <1>3
    <2>4. \A i \in 1..n - t : requests'[i] = requests[t + i] /\ t + i \in 1..n
      <3>1. \A i \in 1..n - t : t + i \in 1..n
        BY <1>1
      <3> QED BY <1>2, <1>4, <3>1
    <2> QED BY <2>1, <2>2, <2>3, <2>4
  <1>6. EngineTypes'
    <2> DEFINE b == SubSeq(requests, 1, t)
    <2>1. engine' = [engine EXCEPT !.at = "copying", !.done = 0, !.batch = b] /\ b \in Seq(Callers)
      BY <1>2, <1>3
    <2> HIDE DEF b
    <2>2. engine' \in [at : {"waiting", "copying", "answering"}, net : {0} \cup NetSizes,
                      batch : Seq(Callers), done : Nat]
      BY <2>1 DEF EngineTypes
    <2>3. requests' \in Seq(Callers)
      BY <1>2, <1>4
    <2> QED BY <1>2, <2>2, <2>3 DEF EngineTypes
  <1>7. Once'
    <2>1. \A i, j \in 1..n : requests[i] = requests[j] => i = j
      BY <1>1 DEF Once
    <2>2. \A i, j \in 1..n - t : requests'[i] = requests'[j] => i = j
      BY <1>1, <1>5, <2>1
    <2>3. \A i \in 1..t, j \in 1..n - t : engine'.batch[i] # requests'[j]
      <3>1. \A i \in 1..t, j \in 1..n - t : i # t + j
        BY <1>1
      <3> QED BY <1>5, <2>1, <3>1
    <2>4. \A i, j \in 1..t : engine'.batch[i] = engine'.batch[j] => i = j
      BY <1>5, <2>1
    <2> QED BY <1>5, <2>2, <2>3, <2>4 DEF Once
  <1>8. Awaited'
    BY <1>1, <1>2, <1>5 DEF Awaited
  <1>9. Progress'
    BY <1>1, <1>2, <1>3 DEF Progress
  <1>10. RowsRight'
    BY <1>2 DEF RowsRight
  <1>11. Answered'
    BY <1>2 DEF Answered, Engine!Row
  <1> QED BY <1>6, <1>7, <1>8, <1>9, <1>10, <1>11

(* The rows are those of the pictures the batch's callers wait for. *)
LEMMA CopyStep ==
  ASSUME EngineInv, Engine!CopyRows
  PROVE  EngineInv'
  <1> USE DEF EngineInv
  <1>1. /\ engine.at = "copying" /\ engine'.at = "answering" /\ engine'.done = engine.done
        /\ engine'.batch = engine.batch /\ engine'.net = engine.net
        /\ engine' = [engine EXCEPT !.at = "answering"]
        /\ nets' = nets /\ caller' = caller /\ requests' = requests
        /\ device' = Engine!Rows
    BY DEF Engine!CopyRows, EngineTypes
  <1>2. ToAnswer' = ToAnswer
    BY <1>1 DEF ToAnswer
  <1>3. \A i \in ToAnswer : device'[i] = Engine!Row(engine.batch[i])
    BY <1>1 DEF ToAnswer, Engine!Rows
  <1>4. EngineTypes'
    BY <1>1 DEF EngineTypes
  <1>5. Once' /\ Awaited'
    BY <1>1, <1>2 DEF Once, Awaited
  <1>6. Progress' /\ Answered'
    BY <1>1 DEF Progress, Answered, Engine!Row
  <1>7. RowsRight'
    BY <1>1, <1>2, <1>3 DEF RowsRight, Engine!Row
  <1> QED BY <1>4, <1>5, <1>6, <1>7

(* The caller answered is no other caller of the batch, and its picture has not changed. *)
LEMMA AnswerStep ==
  ASSUME EngineInv, Engine!Answer
  PROVE  EngineInv'
  <1> USE DEF EngineInv
  <1>1. CASE engine.done = Len(engine.batch)
    <2>1. /\ engine'.at = "waiting" /\ engine'.net = engine.net
          /\ engine' = [engine EXCEPT !.at = "waiting"]
          /\ nets' = nets /\ caller' = caller /\ requests' = requests /\ device' = device
      BY <1>1 DEF Engine!Answer, EngineTypes
    <2>2. ToAnswer' = {}
      BY <2>1 DEF ToAnswer
    <2>3. EngineTypes'
      BY <2>1 DEF EngineTypes
    <2> QED BY <2>1, <2>2, <2>3 DEF Once, Awaited, Progress, RowsRight, Answered, Engine!Row
  <1>2. CASE engine.done # Len(engine.batch)
    <2> DEFINE i == engine.done + 1
               b == engine.batch[i]
    <2>1. i \in ToAnswer /\ b \in Callers /\ engine.at = "answering"
      BY <1>2 DEF Engine!Answer, EngineTypes, Progress, ToAnswer
    <2>2. /\ engine'.at = "answering" /\ engine'.net = engine.net
          /\ engine'.batch = engine.batch /\ engine'.done = i
          /\ engine' = [engine EXCEPT !.done = i]
          /\ nets' = nets /\ requests' = requests /\ device' = device
          /\ caller' = [caller EXCEPT ![b].at = "idle", ![b].answer = device[i]]
      BY <1>2, <2>1 DEF Engine!Answer, EngineTypes
    <2>3. device[i] = Engine!Row(b) /\ Engine!Row(b) \in Rowset
      BY <2>1 DEF RowsRight, Engine!Row, Rowset, EngineTypes
    <2>4. ToAnswer' = ToAnswer \ {i} /\ i <= Len(engine.batch) /\ i \in Nat
      BY <2>1, <2>2 DEF ToAnswer, EngineTypes
    <2> HIDE DEF i, b
    <2>5. /\ caller' \in [Callers -> [at : {"idle", "waiting"}, picture : Nat, answer : Rowset]]
          /\ caller'[b].at = "idle" /\ caller'[b].answer = device[i]
          /\ caller'[b].picture = caller[b].picture
          /\ \A c \in Callers : c # b => caller'[c] = caller[c]
      <3> DEFINE ready == [caller EXCEPT ![b].at = "idle"]
                 answer == device[i]
                 Waiter == [at : {"idle", "waiting"}, picture : Nat, answer : Rowset]
      <3>1. /\ ready \in [Callers -> Waiter] /\ ready[b].at = "idle"
            /\ ready[b].picture = caller[b].picture
            /\ \A c \in Callers : c # b => ready[c] = caller[c]
        BY <2>1 DEF EngineTypes
      <3>2. caller' = [ready EXCEPT ![b].answer = answer] /\ answer \in Rowset
        BY <2>2, <2>3
      <3> HIDE DEF ready, answer
      <3>3. /\ caller' \in [Callers -> Waiter] /\ caller'[b].at = ready[b].at
            /\ caller'[b].answer = answer /\ caller'[b].picture = ready[b].picture
            /\ \A c \in Callers : c # b => caller'[c] = ready[c]
        BY <2>1, <3>1, <3>2
      <3> QED BY <3>1, <3>3 DEF answer
    <2>6. /\ \A j \in ToAnswer : engine.batch[j] \in Callers
          /\ \A j \in ToAnswer \ {i} : engine.batch[j] # b
          /\ \A j \in DOMAIN requests : requests[j] \in Callers /\ requests[j] # b
      BY <2>1 DEF Once, EngineTypes, ToAnswer, b
    <2>7. EngineTypes'
      BY <2>2, <2>4, <2>5 DEF EngineTypes
    <2>8. Once'
      BY <2>2, <2>4 DEF Once
    <2>9. Awaited'
      BY <2>2, <2>4, <2>5, <2>6 DEF Awaited
    <2>10. Progress'
      BY <2>2, <2>4 DEF Progress
    <2>11. RowsRight'
      BY <2>1, <2>2, <2>4, <2>5, <2>6 DEF RowsRight, Engine!Row
    <2>12. Answered'
      BY <2>1, <2>2, <2>3, <2>5 DEF Answered, Engine!Row
    <2> QED BY <2>7, <2>8, <2>9, <2>10, <2>11, <2>12
  <1> QED BY <1>1, <1>2

LEMMA EngineHolds ==
  ASSUME MaxBatch \in Nat
  PROVE  /\ Engine!Init => EngineInv
         /\ EngineInv /\ [Engine!Next]_Engine!engineVars => EngineInv'
         /\ EngineInv => Engine!OwnAnswer
  <1>1. Engine!Init => EngineInv
    <2> SUFFICES ASSUME Engine!Init PROVE EngineInv
      OBVIOUS
    <2>1. /\ engine.at = "waiting" /\ requests = << >> /\ DOMAIN requests = {}
          /\ \A c \in Callers : caller[c].picture = 0
      BY DEF Engine!Init
    <2>2. EngineTypes
      BY DEF Engine!Init, EngineTypes, Engine!None, Rowset
    <2> QED BY <2>1, <2>2 DEF EngineInv, ToAnswer, Once, Awaited, Progress, RowsRight, Answered
  <1>2. EngineInv /\ [Engine!Next]_Engine!engineVars => EngineInv'
    <2> SUFFICES ASSUME EngineInv, [Engine!Next]_Engine!engineVars PROVE EngineInv'
      OBVIOUS
    <2>1. CASE UNCHANGED Engine!engineVars
      <3>1. UNCHANGED <<nets, engine, requests, caller, device>>
        BY <2>1 DEF Engine!engineVars
      <3>2. ToAnswer' = ToAnswer /\ \A c : Engine!Row(c)' = Engine!Row(c)
        BY <3>1 DEF ToAnswer, Engine!Row
      <3>3. EngineTypes' /\ Progress'
        BY <3>1 DEF EngineInv, EngineTypes, Progress
      <3>4. Once' /\ Awaited'
        BY <3>1, <3>2 DEF EngineInv, Once, Awaited
      <3>5. RowsRight' /\ Answered'
        BY <3>1, <3>2 DEF EngineInv, RowsRight, Answered, Engine!Row
      <3> QED BY <3>3, <3>4, <3>5 DEF EngineInv
    <2> QED BY <2>1, InferStep, TakeStep, CopyStep, AnswerStep DEF Engine!Next, Engine!Loop
  <1>3. EngineInv => Engine!OwnAnswer
    BY DEF EngineInv, EngineTypes, Answered, Engine!Answered, Engine!OwnAnswer
  <1> QED BY <1>1, <1>2, <1>3

(* detect_onnx: a camera is answered with the boxes of its own picture, however the engine  *)
(* batches those of the cameras that share it, whatever their input sizes.                  *)
THEOREM AnswersOwn ==
  ASSUME MaxBatch \in Nat
  PROVE  Engine!Spec => []Engine!OwnAnswer
  BY EngineHolds, PTL DEF Engine!Spec

-----------------------------------------------------------------------------
(* tracker. *)

(* tracker: a track of class c or of none, and what is in a batch. *)
TracksOf(c) == [id : Nat, x : Int, v : Int, last : Int, hits : Nat, age : Nat, class : {c, -1}]
Detections(c) == [at : Int, conf : {"high", "low"}, class : {c, -1}]

(* Each track has an id of its own, of those given out. *)
IdsOwn(ts) == \A t, u \in ts : t.id = u.id => t = u
IdsGiven(ts, n) == \A t \in ts : t.id \in 1..n - 1
Matching(m) == \A p, q \in m : Track!Shares(p, q) => p = q

(* Once only one object has been seen, slowly moving, its track is where it was last, for   *)
(* as long as tracks are kept.                                                              *)
OnlyOne == \/ sight.when = 0 /\ tracks = {} /\ sight.ids = {} /\ nextId = 1
           \/ /\ sight.when > 0 /\ sight.ids \subseteq {1} /\ nextId = 2
              /\ \/ batch - sight.when > MaxAge /\ tracks = {}
                 \/ \E t \in tracks : /\ tracks = {t} /\ t.id = 1 /\ t.last = sight.at
                                      /\ t.age = batch - sight.when
TrackInv(c) ==
    /\ tracks \subseteq TracksOf(c) /\ nextId \in Nat \ {0} /\ batch \in Nat
    /\ IdsOwn(tracks) /\ IdsGiven(tracks, nextId)
    /\ \A i, j \in DOMAIN assigned : assigned[i] = assigned[j] /\ i # j => assigned[i] = 0
    /\ sight.at \in Int /\ sight.when \in 0..batch /\ sight.steady \in BOOLEAN
    /\ sight.steady = TRUE => OnlyOne

LEMMA TrackCounts == \A S : Track!Cardinality(S) = Cardinality(S)
  BY DEF Track!Cardinality, Cardinality, Track!IsFiniteSet, IsFiniteSet

(* Ids are given out in order, none twice. *)
LEMMA InOrder ==
  ASSUME NEW S, NEW n \in Nat, S \subseteq 1..n
  PROVE  /\ Cardinality(S) \in Nat /\ (S = {} => Cardinality(S) = 0)
         /\ \A i \in S : Track!Place(i, S) \in 1..Cardinality(S)
         /\ \A i, j \in S : Track!Place(i, S) = Track!Place(j, S) => i = j
  <1> DEFINE Upto(i) == {j \in S : j <= i}
  <1>0. \A i \in S : i \in Nat
    OBVIOUS
  <1>1. IsFiniteSet(S)
    <2>1. IsFiniteSet(1..n)
      BY FS_Interval
    <2> QED BY <2>1, FS_Subset
  <1>2. \A i : /\ IsFiniteSet(Upto(i)) /\ Cardinality(Upto(i)) \in Nat
               /\ Cardinality(Upto(i)) <= Cardinality(S)
    BY <1>1, FS_Subset, FS_CardinalityType
  <1>3. Cardinality(S) \in Nat /\ (S = {} => Cardinality(S) = 0)
    BY <1>1, FS_CardinalityType, FS_EmptySet
  <1>4. ASSUME NEW i \in S PROVE Cardinality(Upto(i)) >= 1
    <2>1. Upto(i) # {}
      OBVIOUS
    <2> QED BY <2>1, <1>2, FS_EmptySet
  <1>5. ASSUME NEW i \in S, NEW j \in S, i < j PROVE Cardinality(Upto(i)) < Cardinality(Upto(j))
    <2>1. j \in Upto(j) /\ j \notin Upto(i)
      BY <1>0, <1>5
    <2>2. ASSUME NEW k \in Upto(i) PROVE k \in Upto(j)
      BY <1>0, <1>5
    <2> HIDE DEF Upto
    <2>3. Upto(i) \in SUBSET Upto(j) /\ Upto(i) # Upto(j)
      BY <2>1, <2>2
    <2>4. Cardinality(Upto(i)) <= Cardinality(Upto(j)) /\ Cardinality(Upto(i)) # Cardinality(Upto(j))
      BY <2>3, <1>2, FS_Subset
    <2> QED BY <2>4, <1>2
  <1>6. \A i : Track!Place(i, S) = Cardinality(Upto(i))
    BY TrackCounts DEF Track!Place
  <1>7. ASSUME NEW i \in S PROVE Track!Place(i, S) \in 1..Cardinality(S)
    <2> HIDE DEF Upto
    <2>1. Cardinality(Upto(i)) \in Nat /\ Cardinality(Upto(i)) <= Cardinality(S)
      BY <1>2
    <2> QED BY <2>1, <1>3, <1>4, <1>6
  <1>8. ASSUME NEW i \in S, NEW j \in S, Track!Place(i, S) = Track!Place(j, S) PROVE i = j
    <2> HIDE DEF Upto
    <2>1. /\ Cardinality(Upto(i)) = Cardinality(Upto(j))
          /\ Cardinality(Upto(i)) \in Nat /\ Cardinality(Upto(j)) \in Nat
      BY <1>2, <1>6, <1>8
    <2>2. i \in Nat /\ j \in Nat
      OBVIOUS
    <2> QED BY <2>1, <2>2, <1>5
  <1> QED BY <1>3, <1>7, <1>8

(* A pass matches tracks and detections that have not been matched. *)
LEMMA PassAdds ==
  ASSUME NEW ts, NEW ds, NEW cand, NEW D, cand \subseteq D, NEW m, m \subseteq ts \X D, Matching(m),
         NEW lastObs, NEW thr, NEW score,
         NEW more \in Track!Greedy(Track!Pairs(ts, ds, cand, m, lastObs, thr), score)
  PROVE  /\ more \subseteq ts \X cand /\ m \cup more \subseteq ts \X D /\ Matching(m \cup more)
  <1>1. /\ \A p \in more : /\ p \in ts \X cand
                           /\ \A q \in m : q[1] # p[1] /\ q[2] # p[2]
        /\ Matching(more)
    BY DEF Track!Greedy, Track!Pairs, Matching
  <1>2. ASSUME NEW p \in m \cup more, NEW q \in m \cup more, Track!Shares(p, q) PROVE p = q
    BY <1>1, <1>2 DEF Matching, Track!Shares
  <1>3. m \cup more \subseteq ts \X D /\ more \subseteq ts \X cand
    BY <1>1
  <1> QED BY <1>2, <1>3 DEF Matching

(* What moves on keeps its id, and what is matched is where it has been seen. *)
LEMMA Moved ==
  ASSUME NEW c, NEW t \in TracksOf(c)
  PROVE  /\ Track!Predicted(t) \in TracksOf(c) /\ Track!Predicted(t).id = t.id
         /\ Track!Predicted(t).last = t.last /\ Track!Predicted(t).age = t.age + 1
  <1>1. t = [id |-> t.id, x |-> t.x, v |-> t.v, last |-> t.last, hits |-> t.hits, age |-> t.age,
             class |-> t.class]
    BY DEF TracksOf
  <1>2. Track!Predicted(t) =
          [id |-> t.id, x |-> t.x + t.v, v |-> t.v, last |-> t.last, hits |-> t.hits,
           age |-> t.age + 1, class |-> t.class]
    <2>1. Track!Predicted(t) = [[t EXCEPT !.age = t.age + 1] EXCEPT !.x = t.x + t.v]
      BY DEF Track!Predicted
    <2>2. [t EXCEPT !.age = t.age + 1] =
            [id |-> t.id, x |-> t.x, v |-> t.v, last |-> t.last, hits |-> t.hits,
             age |-> t.age + 1, class |-> t.class]
      BY <1>1
    <2> QED BY <2>1, <2>2
  <1> QED BY <1>2 DEF TracksOf

LEMMA SeenAgain ==
  ASSUME NEW c, NEW t \in TracksOf(c), NEW d \in Detections(c)
  PROVE  /\ Track!Reseeded(t, d) \in TracksOf(c) /\ Track!Reseeded(t, d).id = t.id
         /\ Track!Corrected(t, d) \in TracksOf(c) /\ Track!Corrected(t, d).id = t.id
         /\ Track!Corrected(t, d).last = d.at /\ Track!Corrected(t, d).age = 0
  <1> DEFINE v == Track!Sign(d.at - t.last) * (Track!Apart(d.at, t.last) \div t.age)
  <1>1. t = [id |-> t.id, x |-> t.x, v |-> t.v, last |-> t.last, hits |-> t.hits, age |-> t.age,
             class |-> t.class]
    BY DEF TracksOf
  <1>2. d.at \in Int /\ d.class \in {c, -1} /\ t.last \in Int /\ t.age \in Nat
    BY DEF Detections, TracksOf
  <1>3. Track!Sign(d.at - t.last) \in Int /\ Track!Apart(d.at, t.last) \in Int
    BY <1>2 DEF Track!Sign, Track!Apart
  <1>4. t.age > 1 => v \in Int
    BY <1>2, <1>3
  <1>5. Track!Reseeded(t, d) = IF t.age > 1 THEN [t EXCEPT !.v = v] ELSE t
    BY DEF Track!Reseeded
  <1> HIDE DEF v
  <1>6. [t EXCEPT !.v = v] = [id |-> t.id, x |-> t.x, v |-> v, last |-> t.last, hits |-> t.hits,
                              age |-> t.age, class |-> t.class]
    BY <1>1
  <1>7. Track!Reseeded(t, d) \in TracksOf(c) /\ Track!Reseeded(t, d).id = t.id
    BY <1>4, <1>5, <1>6 DEF TracksOf
  <1>8. Track!Corrected(t, d) =
          [id |-> t.id, x |-> d.at, v |-> t.v + d.at - t.x, last |-> d.at, hits |-> t.hits + 1,
           age |-> 0, class |-> d.class]
    <2> DEFINE v2 == t.v + d.at - t.x
               r1 == [t EXCEPT !.x = d.at]
               r2 == [r1 EXCEPT !.v = v2]
               r3 == [r2 EXCEPT !.last = d.at]
               r4 == [r3 EXCEPT !.hits = t.hits + 1]
               r5 == [r4 EXCEPT !.age = 0]
    <2>0. Track!Corrected(t, d) = [r5 EXCEPT !.class = d.class]
      BY DEF Track!Corrected
    <2> HIDE DEF v2
    <2>1. r1 = [id |-> t.id, x |-> d.at, v |-> t.v, last |-> t.last, hits |-> t.hits,
                age |-> t.age, class |-> t.class]
      BY <1>1
    <2> HIDE DEF r1
    <2>2. r2 = [id |-> t.id, x |-> d.at, v |-> v2, last |-> t.last, hits |-> t.hits,
                age |-> t.age, class |-> t.class]
      BY <2>1
    <2> HIDE DEF r2
    <2>3. r3 = [id |-> t.id, x |-> d.at, v |-> v2, last |-> d.at, hits |-> t.hits,
                age |-> t.age, class |-> t.class]
      BY <2>2
    <2> HIDE DEF r3
    <2>4. r4 = [id |-> t.id, x |-> d.at, v |-> v2, last |-> d.at, hits |-> t.hits + 1,
                age |-> t.age, class |-> t.class]
      BY <2>3
    <2> HIDE DEF r4
    <2>5. r5 = [id |-> t.id, x |-> d.at, v |-> v2, last |-> d.at, hits |-> t.hits + 1,
                age |-> 0, class |-> t.class]
      BY <2>4
    <2> HIDE DEF r5
    <2> QED BY <2>0, <2>5 DEF v2
  <1> QED BY <1>2, <1>7, <1>8 DEF TracksOf

LEMMA FirstSeen ==
  ASSUME NEW c, NEW d \in Detections(c), NEW id \in Nat
  PROVE  LET u == Track!NewTrack(id, d)
         IN u \in TracksOf(c) /\ u.id = id /\ u.last = d.at /\ u.age = 0
  BY DEF Track!NewTrack, TracksOf, Detections

(* A batch handed on: the tracks met go on, each as one, and those begun have new ids. *)
LEMMA HandedOn ==
  ASSUME NEW c, NEW ds \in Seq(Detections(c)), NEW ts, ts \subseteq TracksOf(c),
         IdsOwn(ts), IdsGiven(ts, nextId), nextId \in Nat \ {0},
         NEW m, m \subseteq ts \X DOMAIN ds, Matching(m), NEW m3, Track!Handed(ts, ds, m, m3)
  PROVE  /\ tracks' \subseteq TracksOf(c) /\ nextId' \in Nat \ {0}
         /\ IdsOwn(tracks') /\ IdsGiven(tracks', nextId')
         /\ \A i, j \in DOMAIN assigned' : assigned'[i] = assigned'[j] /\ i # j => assigned'[i] = 0
  <1> DEFINE met == {p[2] : p \in m}
             new == {i \in DOMAIN ds : ds[i].conf # "low"} \ met
             Of(i) == CHOOSE p \in m : p[2] = i
             Met(i) == IF Of(i) \in m3 THEN Track!Reseeded(Of(i)[1], ds[i]) ELSE Of(i)[1]
             track(i) == IF i \in new THEN Track!NewTrack(nextId + Track!Place(i, new) - 1, ds[i])
                         ELSE Track!Corrected(Met(i), ds[i])
             kept == {t \in ts : \A p \in m : p[1] # t} \cup {track(i) : i \in new \cup met}
  <1>1. /\ assigned' = [i \in DOMAIN ds |->
                          IF i \in new \cup met /\ track(i).hits >= MinHits THEN track(i).id ELSE 0]
        /\ nextId' = nextId + Cardinality(new)
        /\ tracks' = {t \in kept : t.age <= MaxAge}
    BY TrackCounts DEF Track!Handed
  <1>2. /\ Len(ds) \in Nat /\ DOMAIN ds = 1..Len(ds) /\ new \subseteq 1..Len(ds)
        /\ \A i \in DOMAIN ds : ds[i] \in Detections(c)
    OBVIOUS
  <1>3. ASSUME NEW i \in met PROVE Of(i) \in m /\ Of(i)[2] = i /\ Of(i)[1] \in ts /\ i \in DOMAIN ds
    <2>1. \E p \in m : p[2] = i
      OBVIOUS
    <2>2. Of(i) \in m /\ Of(i)[2] = i
      BY <2>1
    <2> QED BY <2>2
  <1> HIDE DEF Of
  <1>4. ASSUME NEW i \in met
        PROVE  track(i) \in TracksOf(c) /\ track(i).id = Of(i)[1].id /\ track(i).id \in 1..nextId - 1
    <2>1. i \notin new /\ track(i) = Track!Corrected(Met(i), ds[i])
      OBVIOUS
    <2>2. Of(i)[1] \in TracksOf(c) /\ ds[i] \in Detections(c) /\ Of(i)[1].id \in 1..nextId - 1
      BY <1>2, <1>3 DEF IdsGiven
    <2>3. Met(i) \in TracksOf(c) /\ Met(i).id = Of(i)[1].id
      <3>1. /\ Track!Reseeded(Of(i)[1], ds[i]) \in TracksOf(c)
            /\ Track!Reseeded(Of(i)[1], ds[i]).id = Of(i)[1].id
        <4> DEFINE t == Of(i)[1]
                   d == ds[i]
        <4>1. t \in TracksOf(c) /\ d \in Detections(c)
          BY <2>2
        <4> HIDE DEF t, d, met, new
        <4>2. Track!Reseeded(t, d) \in TracksOf(c) /\ Track!Reseeded(t, d).id = t.id
          BY <4>1, SeenAgain
        <4> QED BY <4>2 DEF t, d
      <3> QED BY <2>2, <3>1
    <2>4. PICK t \in TracksOf(c) : t.id = Of(i)[1].id /\ track(i) = Track!Corrected(t, ds[i])
      BY <2>1, <2>3
    <2> HIDE DEF track
    <2>5. Track!Corrected(t, ds[i]) \in TracksOf(c) /\ Track!Corrected(t, ds[i]).id = t.id
      <3> DEFINE d == ds[i]
      <3>1. d \in Detections(c)
        BY <2>2
      <3> HIDE DEF d, met, new
      <3>2. Track!Corrected(t, d) \in TracksOf(c) /\ Track!Corrected(t, d).id = t.id
        BY <2>4, <3>1, SeenAgain
      <3> QED BY <3>2 DEF d
    <2>6. track(i) \in TracksOf(c) /\ track(i).id = Of(i)[1].id
      BY <2>4, <2>5
    <2> QED BY <2>2, <2>6
  <1>5. /\ Cardinality(new) \in Nat
        /\ \A i \in new : Track!Place(i, new) \in 1..Cardinality(new)
        /\ \A i, j \in new : Track!Place(i, new) = Track!Place(j, new) => i = j
    BY <1>2, InOrder
  <1>6. ASSUME NEW i \in new
        PROVE  /\ track(i) \in TracksOf(c) /\ track(i).id = nextId + Track!Place(i, new) - 1
               /\ track(i).id \in nextId..nextId' - 1
    <2>1. track(i) = Track!NewTrack(nextId + Track!Place(i, new) - 1, ds[i])
      OBVIOUS
    <2>2. ds[i] \in Detections(c) /\ Track!Place(i, new) \in 1..Cardinality(new)
      BY <1>2, <1>5
    <2> HIDE DEF new, track
    <2>3. nextId + Track!Place(i, new) - 1 \in Nat
      BY <2>2
    <2>4. track(i) \in TracksOf(c) /\ track(i).id = nextId + Track!Place(i, new) - 1
      BY <2>1, <2>2, <2>3, FirstSeen
    <2> QED BY <2>2, <2>4, <1>1, <1>5
  <1> HIDE DEF met, new, track
  <1>7. ASSUME NEW i \in new \cup met, NEW j \in new \cup met, track(i).id = track(j).id PROVE i = j
    <2>1. CASE i \in new /\ j \in new
      BY <2>1, <1>5, <1>6, <1>7
    <2>2. CASE i \in met /\ j \in met
      <3>1. Of(i)[1] = Of(j)[1]
        BY <2>2, <1>3, <1>4, <1>7 DEF IdsOwn
      <3>2. Of(i) = Of(j)
        BY <3>1, <2>2, <1>3 DEF Matching, Track!Shares
      <3> QED BY <3>2, <2>2, <1>3
    <2>3. CASE i \in new /\ j \in met
      BY <2>3, <1>4, <1>6, <1>7
    <2>4. CASE i \in met /\ j \in new
      BY <2>4, <1>4, <1>6, <1>7
    <2> QED BY <2>1, <2>2, <2>3, <2>4
  <1>8. ASSUME NEW t \in ts, \A p \in m : p[1] # t, NEW i \in new \cup met PROVE track(i).id # t.id
    <2>1. t.id \in 1..nextId - 1
      BY DEF IdsGiven
    <2>2. CASE i \in new
      BY <2>1, <2>2, <1>6
    <2>3. CASE i \in met
      BY <2>3, <1>3, <1>4, <1>8 DEF IdsOwn
    <2> QED BY <2>2, <2>3
  <1>9. nextId' \in Nat \ {0} /\ nextId <= nextId'
    BY <1>1, <1>5
  <1>10. ASSUME NEW t \in kept
         PROVE  t \in TracksOf(c) /\ t.id \in 1..nextId' - 1
    <2>1. CASE t \in ts
      BY <2>1, <1>9 DEF IdsGiven
    <2>2. CASE \E i \in new \cup met : t = track(i)
      BY <2>2, <1>4, <1>6, <1>9
    <2> QED BY <2>1, <2>2
  <1>11. ASSUME NEW t \in kept, NEW u \in kept, t.id = u.id PROVE t = u
    <2>1. ASSUME NEW x \in kept
          PROVE  \/ x \in ts /\ \A p \in m : p[1] # x
                 \/ \E i \in new \cup met : x = track(i)
      OBVIOUS
    <2> HIDE DEF kept
    <2>2. CASE t \in ts /\ u \in ts
      BY <2>2, <1>11 DEF IdsOwn
    <2>3. CASE (\E i \in new \cup met : t = track(i)) /\ \E i \in new \cup met : u = track(i)
      BY <2>3, <1>7, <1>11
    <2>4. CASE t \in ts /\ (\A p \in m : p[1] # t) /\ \E i \in new \cup met : u = track(i)
      BY <2>4, <1>8, <1>11
    <2>5. CASE u \in ts /\ (\A p \in m : p[1] # u) /\ \E i \in new \cup met : t = track(i)
      BY <2>5, <1>8, <1>11
    <2> QED BY <2>1, <2>2, <2>3, <2>4, <2>5
  <1> HIDE DEF kept
  <1>12. \A i, j \in DOMAIN assigned' : assigned'[i] = assigned'[j] /\ i # j => assigned'[i] = 0
    <2> SUFFICES ASSUME NEW i \in DOMAIN assigned', NEW j \in DOMAIN assigned',
                        assigned'[i] = assigned'[j], assigned'[i] # 0
                 PROVE  i = j
      OBVIOUS
    <2>1. DOMAIN assigned' = DOMAIN ds
      BY <1>1
    <2>2. assigned'[j] # 0
      OBVIOUS
    <2>3. i \in new \cup met /\ assigned'[i] = track(i).id
      BY <1>1, <2>1
    <2>4. j \in new \cup met /\ assigned'[j] = track(j).id
      BY <1>1, <2>1, <2>2
    <2> QED BY <2>3, <2>4, <1>7
  <1>13. IdsOwn(tracks') /\ IdsGiven(tracks', nextId') /\ tracks' \subseteq TracksOf(c)
    BY <1>1, <1>10, <1>11 DEF IdsOwn, IdsGiven
  <1> QED BY <1>9, <1>12, <1>13

(* What Update comes to: three passes over the tracks as predicted. *)
High(ds) == {i \in DOMAIN ds : ds[i].conf # "low"}
Ahead == {Track!Predicted(t) : t \in tracks}
Pass(ds, cand, m, more, lastObs, thr) ==
    \E score : more \in Track!Greedy(Track!Pairs(Ahead, ds, cand, m, lastObs, thr), score)
Rest(ds, m) == High(ds) \ {p[2] : p \in m}

LEMMA ThreePasses ==
  ASSUME NEW ds, Track!Update(ds)
  PROVE  \E m1, m2, m3 : /\ Pass(ds, High(ds), {}, m1, FALSE, 3)
                         /\ Pass(ds, DOMAIN ds \ High(ds), m1, m2, FALSE, 2)
                         /\ Pass(ds, Rest(ds, m1 \cup m2), m1 \cup m2, m3, TRUE, 3)
                         /\ Track!Handed(Ahead, ds, m1 \cup m2 \cup m3, m3)
  <1> DEFINE p1 == Track!Pairs(Ahead, ds, High(ds), {}, FALSE, 3)
             p2(m) == Track!Pairs(Ahead, ds, DOMAIN ds \ High(ds), m, FALSE, 2)
  <1>1. PICK m1 \in Track!Greedy(p1, [p \in p1 |-> Track!Score(ds, FALSE, TRUE, p)]) :
             \E m2 \in Track!Greedy(p2(m1), [p \in p2(m1) |-> Track!Score(ds, FALSE, FALSE, p)]) :
             \E m3 \in Track!ThirdPass(Ahead, ds, Rest(ds, m1 \cup m2), m1 \cup m2) :
                 Track!Handed(Ahead, ds, m1 \cup m2 \cup m3, m3)
    BY DEF Track!Update, Ahead, High, Rest
  <1>2. PICK m2 \in Track!Greedy(p2(m1), [p \in p2(m1) |-> Track!Score(ds, FALSE, FALSE, p)]) :
             \E m3 \in Track!ThirdPass(Ahead, ds, Rest(ds, m1 \cup m2), m1 \cup m2) :
                 Track!Handed(Ahead, ds, m1 \cup m2 \cup m3, m3)
    BY <1>1
  <1>3. PICK m3 \in Track!ThirdPass(Ahead, ds, Rest(ds, m1 \cup m2), m1 \cup m2) :
             Track!Handed(Ahead, ds, m1 \cup m2 \cup m3, m3)
    BY <1>2
  <1>4. Pass(ds, High(ds), {}, m1, FALSE, 3)
    BY <1>1 DEF Pass
  <1>5. Pass(ds, DOMAIN ds \ High(ds), m1, m2, FALSE, 2)
    BY <1>2 DEF Pass
  <1>6. Pass(ds, Rest(ds, m1 \cup m2), m1 \cup m2, m3, TRUE, 3)
    BY <1>3 DEF Pass, Track!ThirdPass
  <1> QED BY <1>3, <1>4, <1>5, <1>6

LEMMA PassKeeps ==
  ASSUME NEW ds, NEW cand, cand \subseteq DOMAIN ds, NEW m, m \subseteq Ahead \X DOMAIN ds,
         Matching(m), NEW lastObs, NEW thr, NEW more, Pass(ds, cand, m, more, lastObs, thr)
  PROVE  /\ more \subseteq Ahead \X cand /\ m \cup more \subseteq Ahead \X DOMAIN ds
         /\ Matching(m \cup more)
  BY PassAdds DEF Pass

LEMMA AheadAgree ==
  ASSUME NEW c, tracks \subseteq TracksOf(c), IdsOwn(tracks), IdsGiven(tracks, nextId)
  PROVE  Ahead \subseteq TracksOf(c) /\ IdsOwn(Ahead) /\ IdsGiven(Ahead, nextId)
  BY Moved DEF Ahead, IdsOwn, IdsGiven

LEMMA UpdateMatches ==
  ASSUME NEW c, NEW ds \in Seq(Detections(c)), tracks \subseteq TracksOf(c), IdsOwn(tracks),
         IdsGiven(tracks, nextId), nextId \in Nat \ {0}, Track!Update(ds)
  PROVE  /\ tracks' \subseteq TracksOf(c) /\ nextId' \in Nat \ {0}
         /\ IdsOwn(tracks') /\ IdsGiven(tracks', nextId')
         /\ \A i, j \in DOMAIN assigned' : assigned'[i] = assigned'[j] /\ i # j => assigned'[i] = 0
  <1>1. PICK m1, m2, m3 : /\ Pass(ds, High(ds), {}, m1, FALSE, 3)
                          /\ Pass(ds, DOMAIN ds \ High(ds), m1, m2, FALSE, 2)
                          /\ Pass(ds, Rest(ds, m1 \cup m2), m1 \cup m2, m3, TRUE, 3)
                          /\ Track!Handed(Ahead, ds, m1 \cup m2 \cup m3, m3)
    BY ThreePasses
  <1>2. /\ High(ds) \subseteq DOMAIN ds /\ Rest(ds, m1 \cup m2) \subseteq DOMAIN ds
        /\ {} \subseteq Ahead \X DOMAIN ds /\ Matching({}) /\ {} \cup m1 = m1
    BY DEF High, Rest, Matching
  <1>3. m1 \subseteq Ahead \X DOMAIN ds /\ Matching(m1)
    <2>1. {} \cup m1 \subseteq Ahead \X DOMAIN ds /\ Matching({} \cup m1)
      BY <1>1, <1>2, PassKeeps
    <2> QED BY <1>2, <2>1
  <1>4. m1 \cup m2 \subseteq Ahead \X DOMAIN ds /\ Matching(m1 \cup m2)
    BY <1>1, <1>2, <1>3, PassKeeps
  <1>5. m1 \cup m2 \cup m3 \subseteq Ahead \X DOMAIN ds /\ Matching(m1 \cup m2 \cup m3)
    BY <1>1, <1>2, <1>4, PassKeeps
  <1> QED BY <1>1, <1>5, AheadAgree, HandedOn

(* A batch of nothing: tracks grow older and go. *)
LEMMA NothingMet ==
  ASSUME NEW ds, ds = << >>, Track!Update(ds)
  PROVE  /\ tracks' = {t \in Ahead : t.age <= MaxAge} /\ nextId' = nextId + Cardinality({})
         /\ DOMAIN assigned' = {}
  <1>1. PICK m1, m2, m3 : /\ Pass(ds, High(ds), {}, m1, FALSE, 3)
                          /\ Pass(ds, DOMAIN ds \ High(ds), m1, m2, FALSE, 2)
                          /\ Pass(ds, Rest(ds, m1 \cup m2), m1 \cup m2, m3, TRUE, 3)
                          /\ Track!Handed(Ahead, ds, m1 \cup m2 \cup m3, m3)
    BY ThreePasses
  <1>2. DOMAIN ds = {}
    OBVIOUS
  <1>3. \A cand, m, more, lastObs, thr : cand \subseteq {} /\ Pass(ds, cand, m, more, lastObs, thr)
          => more = {}
    BY DEF Pass, Track!Greedy, Track!Pairs
  <1>4. m1 = {} /\ m2 = {} /\ m3 = {}
    <2>1. High(ds) \subseteq {} /\ DOMAIN ds \ High(ds) \subseteq {}
          /\ Rest(ds, m1 \cup m2) \subseteq {}
      BY <1>2 DEF High, Rest
    <2>2. m1 = {}
      BY <1>1, <1>3, <2>1
    <2>3. m2 = {}
      BY <1>1, <1>3, <2>1
    <2>4. m3 = {}
      BY <1>1, <1>3, <2>1
    <2> QED BY <2>2, <2>3, <2>4
  <1>5. Track!Handed(Ahead, ds, {}, {})
    BY <1>1, <1>4
  <1> QED BY <1>2, <1>5, TrackCounts DEF Track!Handed

LEMMA AloneIn ==
  ASSUME NEW c, NEW ds \in Seq(Detections(c)), Len(ds) = 1, ds[1].conf = "high"
  PROVE  DOMAIN ds = {1} /\ ds[1] \in Detections(c) /\ High(ds) = {1}
  <1>1. DOMAIN ds = 1..1
    BY LenProperties
  <1>2. DOMAIN ds = {1}
    BY <1>1
  <1>3. \A i \in DOMAIN ds : ds[i] \in Detections(c)
    BY <1>1, ElementOfSeq
  <1> QED BY <1>2, <1>3 DEF High

(* The first of its kind begins a track. *)
LEMMA FirstMet ==
  ASSUME NEW c, NEW ds \in Seq(Detections(c)), Len(ds) = 1, ds[1].conf = "high", tracks = {},
         nextId = 1, MaxAge \in Nat, Track!Update(ds)
  PROVE  /\ nextId' = 2 /\ assigned'[1] \in {0, 1}
         /\ \E t : tracks' = {t} /\ t.id = 1 /\ t.last = ds[1].at /\ t.age = 0
  <1>1. PICK m1, m2, m3 : /\ Pass(ds, High(ds), {}, m1, FALSE, 3)
                          /\ Pass(ds, DOMAIN ds \ High(ds), m1, m2, FALSE, 2)
                          /\ Pass(ds, Rest(ds, m1 \cup m2), m1 \cup m2, m3, TRUE, 3)
                          /\ Track!Handed(Ahead, ds, m1 \cup m2 \cup m3, m3)
    BY ThreePasses
  <1>2. DOMAIN ds = {1} /\ ds[1] \in Detections(c) /\ Ahead = {}
    BY AloneIn DEF Ahead
  <1>3. \A cand, m, more, lastObs, thr : Pass(ds, cand, m, more, lastObs, thr) => more = {}
    BY <1>2 DEF Pass, Track!Greedy, Track!Pairs
  <1>4. Track!Handed({}, ds, {}, {})
    <2>1. m1 = {} /\ m2 = {} /\ m3 = {}
      BY <1>1, <1>3
    <2> QED BY <1>1, <1>2, <2>1
  <1> DEFINE met == {p[2] : p \in {}}
             new == {i \in DOMAIN ds : ds[i].conf # "low"} \ met
             Of(i) == CHOOSE p \in {} : p[2] = i
             Met(i) == IF Of(i) \in {} THEN Track!Reseeded(Of(i)[1], ds[i]) ELSE Of(i)[1]
             track(i) == IF i \in new THEN Track!NewTrack(nextId + Track!Place(i, new) - 1, ds[i])
                         ELSE Track!Corrected(Met(i), ds[i])
             kept == {t \in {} : \A p \in {} : p[1] # t} \cup {track(i) : i \in new \cup met}
  <1>5. /\ assigned' = [i \in DOMAIN ds |->
                          IF i \in new \cup met /\ track(i).hits >= MinHits THEN track(i).id ELSE 0]
        /\ nextId' = nextId + Cardinality(new)
        /\ tracks' = {t \in kept : t.age <= MaxAge}
    BY <1>4, TrackCounts DEF Track!Handed
  <1>6. new = {1} /\ met = {}
    BY <1>2
  <1>7. Cardinality({1}) = 1 /\ Track!Place(1, {1}) = 1
    <2>1. {j \in {1} : j <= 1} = {1}
      OBVIOUS
    <2> QED BY <2>1, FS_Singleton, TrackCounts DEF Track!Place
  <1> HIDE DEF new, met
  <1>8. track(1) = Track!NewTrack(1, ds[1])
    BY <1>6, <1>7
  <1> HIDE DEF track
  <1>9. kept = {track(1)}
    BY <1>6
  <1> HIDE DEF kept
  <1>10. track(1).id = 1 /\ track(1).last = ds[1].at /\ track(1).age = 0
    BY <1>2, <1>8, FirstSeen
  <1>11. assigned'[1] \in {0, track(1).id}
    BY <1>2, <1>5
  <1>12. tracks' = {track(1)} /\ assigned'[1] \in {0, 1}
    BY <1>5, <1>9, <1>10, <1>11
  <1> QED BY <1>5, <1>6, <1>7, <1>10, <1>12

(* One that moves slowly is met: where its track is predicted, or where it was last. *)
LEMMA SameMet ==
  ASSUME NEW c, NEW ds \in Seq(Detections(c)), Len(ds) = 1, ds[1].conf = "high",
         NEW u \in TracksOf(c), Ahead = {u}, Track!Apart(ds[1].at, u.last) <= 1,
         MaxAge \in Nat, nextId \in Nat, Track!Update(ds)
  PROVE  /\ nextId' = nextId /\ assigned'[1] \in {0, u.id}
         /\ \E t : tracks' = {t} /\ t.id = u.id /\ t.last = ds[1].at /\ t.age = 0
  <1>1. PICK m1, m2, m3 : /\ Pass(ds, High(ds), {}, m1, FALSE, 3)
                          /\ Pass(ds, DOMAIN ds \ High(ds), m1, m2, FALSE, 2)
                          /\ Pass(ds, Rest(ds, m1 \cup m2), m1 \cup m2, m3, TRUE, 3)
                          /\ Track!Handed(Ahead, ds, m1 \cup m2 \cup m3, m3)
    BY ThreePasses
  <1>2. DOMAIN ds = {1} /\ ds[1] \in Detections(c) /\ High(ds) = {1}
    BY AloneIn
  <1>3. \A cand, m, more, lastObs, thr :
           Pass(ds, cand, m, more, lastObs, thr) => more \subseteq {u} \X cand
    BY DEF Pass, Track!Greedy, Track!Pairs
  <1>4. m1 \subseteq {<<u, 1>>} /\ m2 = {}
    <2>1. m1 \subseteq {u} \X High(ds)
      BY <1>1, <1>3
    <2>2. m2 \subseteq {u} \X (DOMAIN ds \ High(ds))
      BY <1>1, <1>3
    <2>3. m2 \subseteq {u} \X {}
      BY <1>2, <2>2
    <2> QED BY <1>2, <2>1, <2>3
  <1>5. \E late : Track!Handed({u}, ds, {<<u, 1>>}, late)
    <2>1. CASE m1 = {}
      <3>1. m1 \cup m2 = {} /\ Rest(ds, {}) = {1}
        BY <1>2, <1>4, <2>1 DEF Rest
      <3>2. Track!gate_ok(ds[1], u) /\ Track!iou(ds[1].at, u.last) >= 3
        <4>1. Track!gate_ok(ds[1], u)
          BY <1>2 DEF Track!gate_ok, Detections, TracksOf
        <4>2. ds[1].at \in Int /\ u.last \in Int
          BY <1>2 DEF Detections, TracksOf
        <4>3. Track!Apart(ds[1].at, u.last) \in {0, 1}
          BY <4>2 DEF Track!Apart
        <4> QED BY <4>1, <4>3 DEF Track!iou
      <3>3. <<u, 1>> \in Track!Pairs(Ahead, ds, {1}, {}, TRUE, 3)
        BY <3>2 DEF Track!Pairs
      <3>4. Pass(ds, {1}, {}, m3, TRUE, 3)
        BY <1>1, <3>1
      <3>5. PICK score : m3 \in Track!Greedy(Track!Pairs(Ahead, ds, {1}, {}, TRUE, 3), score)
        BY <3>4 DEF Pass
      <3>6. m3 # {}
        BY <3>3, <3>5 DEF Track!Greedy
      <3>7. m3 \subseteq {u} \X {1}
        BY <3>4, <1>3
      <3>8. m1 \cup m2 \cup m3 = {<<u, 1>>}
        BY <3>1, <3>6, <3>7
      <3> QED BY <1>1, <3>8
    <2>2. CASE m1 = {<<u, 1>>}
      <3>1. Rest(ds, m1 \cup m2) = {}
        BY <1>2, <1>4, <2>2 DEF Rest
      <3>2. m3 \subseteq {u} \X {}
        BY <1>1, <1>3, <3>1
      <3>3. m1 \cup m2 \cup m3 = {<<u, 1>>}
        BY <1>4, <2>2, <3>2
      <3> QED BY <1>1, <3>3
    <2> QED BY <1>4, <2>1, <2>2
  <1>6. PICK late : Track!Handed({u}, ds, {<<u, 1>>}, late)
    BY <1>5
  <1> DEFINE m == {<<u, 1>>}
             met == {p[2] : p \in m}
             new == {i \in DOMAIN ds : ds[i].conf # "low"} \ met
             Of(i) == CHOOSE p \in m : p[2] = i
             Met(i) == IF Of(i) \in late THEN Track!Reseeded(Of(i)[1], ds[i]) ELSE Of(i)[1]
             track(i) == IF i \in new THEN Track!NewTrack(nextId + Track!Place(i, new) - 1, ds[i])
                         ELSE Track!Corrected(Met(i), ds[i])
             kept == {t \in {u} : \A p \in m : p[1] # t} \cup {track(i) : i \in new \cup met}
  <1>7. /\ assigned' = [i \in DOMAIN ds |->
                          IF i \in new \cup met /\ track(i).hits >= MinHits THEN track(i).id ELSE 0]
        /\ nextId' = nextId + Cardinality(new)
        /\ tracks' = {t \in kept : t.age <= MaxAge}
    BY <1>6, TrackCounts DEF Track!Handed
  <1>8. met = {1}
    OBVIOUS
  <1>9. new = {} /\ {t \in {u} : \A p \in m : p[1] # t} = {}
    BY <1>2, <1>8
  <1>10. Of(1) = <<u, 1>>
    OBVIOUS
  <1> HIDE DEF Of, m, met, new
  <1>11. Met(1) \in TracksOf(c) /\ Met(1).id = u.id
    BY <1>2, <1>10, SeenAgain
  <1>12. track(1) = Track!Corrected(Met(1), ds[1])
    BY <1>9
  <1> HIDE DEF Met, track
  <1>13. kept = {track(1)}
    BY <1>8, <1>9
  <1> HIDE DEF kept
  <1>14. track(1).id = u.id /\ track(1).last = ds[1].at /\ track(1).age = 0
    BY <1>2, <1>11, <1>12, SeenAgain
  <1>15. assigned'[1] \in {0, track(1).id}
    BY <1>2, <1>7
  <1>16. tracks' = {track(1)} /\ assigned'[1] \in {0, u.id}
    BY <1>7, <1>13, <1>14, <1>15
  <1> QED BY <1>7, <1>9, <1>14, <1>16, FS_EmptySet

(* One track or none, as long as only one object has been seen. *)
LEMMA TrackHolds ==
  ASSUME NEW c, Batches \subseteq Seq(Detections(c)), MaxAge \in Nat
  PROVE  /\ Track!Init => TrackInv(c)
         /\ TrackInv(c) /\ [Track!Next]_Track!trackerVars => TrackInv(c)'
         /\ TrackInv(c) => Track!OneIdEach
  <1>1. ASSUME Track!Init PROVE TrackInv(c)
    BY <1>1 DEF Track!Init, Track!Rest, TrackInv, IdsOwn, IdsGiven, OnlyOne
  <1>2. ASSUME TrackInv(c), Track!HandleEvent PROVE TrackInv(c)'
    <2> USE <1>2
    <2>1. PICK ds \in Batches : Track!Update(ds) /\ Track!Sighted(ds)
      BY DEF Track!HandleEvent
    <2>2. ds \in Seq(Detections(c)) /\ batch' = batch + 1
      BY <2>1 DEF Track!HandleEvent
    <2>3. /\ tracks \subseteq TracksOf(c) /\ nextId \in Nat \ {0} /\ batch \in Nat
          /\ IdsOwn(tracks) /\ IdsGiven(tracks, nextId)
          /\ sight.at \in Int /\ sight.when \in 0..batch /\ sight.steady \in BOOLEAN
          /\ (sight.steady = TRUE => OnlyOne)
      BY DEF TrackInv
    <2>4. /\ tracks' \subseteq TracksOf(c) /\ nextId' \in Nat \ {0}
          /\ IdsOwn(tracks') /\ IdsGiven(tracks', nextId')
          /\ \A i, j \in DOMAIN assigned' : assigned'[i] = assigned'[j] /\ i # j => assigned'[i] = 0
      BY <2>1, <2>2, <2>3, UpdateMatches
    <2> DEFINE lone == Len(ds) = 1 /\ ds[1].conf = "high"
               near == sight.when = 0 \/ (/\ Track!Apart(ds[1].at, sight.at) <= 1
                                          /\ batch + 1 - sight.when <= MaxAge + 1)
    <2>5. /\ sight'.at = IF lone THEN ds[1].at ELSE sight.at
          /\ sight'.when = IF lone THEN batch + 1 ELSE sight.when
          /\ sight'.steady = (sight.steady /\ (ds = << >> \/ (lone /\ near)))
          /\ sight'.ids = sight.ids \cup ({assigned'[i] : i \in DOMAIN ds} \ {0})
      BY <2>1 DEF Track!Sighted
    <2>6. lone => ds[1] \in Detections(c) /\ ds[1].at \in Int
      BY <2>2, AloneIn DEF Detections
    <2>7. /\ sight'.at \in Int /\ sight'.when \in 0..batch' /\ sight'.steady \in BOOLEAN
          /\ batch' \in Nat
      <3>1. CASE lone
        BY <2>2, <2>3, <2>5, <2>6, <3>1
      <3>2. CASE ~lone
        BY <2>2, <2>3, <2>5, <3>2
      <3> QED BY <3>1, <3>2
    <2>8. ASSUME sight'.steady = TRUE PROVE OnlyOne'
      <3>1. sight.steady = TRUE /\ (ds = << >> \/ (lone /\ near))
        BY <2>3, <2>5, <2>8
      <3>2. OnlyOne
        BY <2>3, <3>1
      <3>3. CASE ds = << >>
        <4>1. tracks' = {t \in Ahead : t.age <= MaxAge} /\ nextId' = nextId
          BY <2>1, <2>3, <3>3, NothingMet, FS_EmptySet
        <4>2. sight'.at = sight.at /\ sight'.when = sight.when /\ sight'.ids = sight.ids
          BY <2>5, <3>3
        <4>3. CASE sight.when = 0
          <5>1. tracks = {} /\ sight.ids = {} /\ nextId = 1
            BY <3>2, <4>3 DEF OnlyOne
          <5>2. tracks' = {}
            BY <4>1, <5>1 DEF Ahead
          <5> QED BY <4>1, <4>2, <4>3, <5>1, <5>2 DEF OnlyOne
        <4>4. CASE sight.when > 0
          <5>1. sight.ids \subseteq {1} /\ nextId = 2
            BY <3>2, <4>4 DEF OnlyOne
          <5>2. CASE batch - sight.when > MaxAge /\ tracks = {}
            <6>1. tracks' = {}
              BY <4>1, <5>2 DEF Ahead
            <6>2. batch' - sight.when > MaxAge
              BY <2>2, <2>3, <5>2
            <6> QED BY <4>1, <4>2, <4>4, <5>1, <6>1, <6>2 DEF OnlyOne
          <5>3. CASE \E t \in tracks : /\ tracks = {t} /\ t.id = 1 /\ t.last = sight.at
                                       /\ t.age = batch - sight.when
            <6>1. PICK t \in tracks : /\ tracks = {t} /\ t.id = 1 /\ t.last = sight.at
                                      /\ t.age = batch - sight.when
              BY <5>3
            <6> DEFINE u == Track!Predicted(t)
            <6>2. /\ u.id = 1 /\ u.last = sight.at /\ u.age = batch' - sight'.when
              BY <2>2, <2>3, <4>2, <6>1, Moved
            <6>3. Ahead = {u}
              BY <6>1 DEF Ahead
            <6> HIDE DEF u
            <6>4. CASE u.age <= MaxAge
              <7>1. tracks' = {u}
                BY <4>1, <6>3, <6>4
              <7> QED BY <4>1, <4>2, <4>4, <5>1, <6>2, <7>1 DEF OnlyOne
            <6>5. CASE ~(u.age <= MaxAge)
              <7>1. tracks' = {}
                BY <4>1, <6>3, <6>5
              <7>2. batch' - sight'.when > MaxAge
                BY <2>2, <2>7, <6>2, <6>5
              <7> QED BY <4>1, <4>2, <4>4, <5>1, <7>1, <7>2 DEF OnlyOne
            <6> QED BY <6>4, <6>5
          <5> QED BY <3>2, <4>4, <5>2, <5>3 DEF OnlyOne
        <4> QED BY <2>3, <4>3, <4>4
      <3>4. CASE lone /\ sight.when = 0
        <4>1. tracks = {} /\ sight.ids = {} /\ nextId = 1
          BY <3>2, <3>4 DEF OnlyOne
        <4>2. /\ nextId' = 2 /\ assigned'[1] \in {0, 1}
              /\ \E t : tracks' = {t} /\ t.id = 1 /\ t.last = ds[1].at /\ t.age = 0
          BY <2>1, <2>2, <3>4, <4>1, FirstMet
        <4>3. /\ sight'.at = ds[1].at /\ sight'.when = batch'
              /\ sight'.ids \subseteq {1}
          BY <2>2, <2>5, <3>4, <4>1, <4>2, AloneIn
        <4>4. batch' > 0 /\ batch' - sight'.when = 0
          BY <2>2, <2>3, <4>3
        <4> QED BY <4>2, <4>3, <4>4 DEF OnlyOne
      <3>5. CASE lone /\ near /\ sight.when # 0
        <4>1. sight.when > 0 /\ sight.ids \subseteq {1} /\ nextId = 2
          BY <2>3, <3>2, <3>5 DEF OnlyOne
        <4>2. Track!Apart(ds[1].at, sight.at) <= 1 /\ ~(batch - sight.when > MaxAge)
          BY <2>3, <3>5
        <4>3. PICK t \in tracks : /\ tracks = {t} /\ t.id = 1 /\ t.last = sight.at
                                  /\ t.age = batch - sight.when
          BY <3>2, <4>1, <4>2 DEF OnlyOne
        <4> DEFINE u == Track!Predicted(t)
        <4>4. u \in TracksOf(c) /\ u.id = 1 /\ u.last = sight.at
          BY <2>3, <4>3, Moved
        <4>5. Ahead = {u}
          BY <4>3 DEF Ahead
        <4> HIDE DEF u
        <4>6. /\ nextId' = nextId /\ assigned'[1] \in {0, u.id}
              /\ \E s : tracks' = {s} /\ s.id = u.id /\ s.last = ds[1].at /\ s.age = 0
          <5>1. /\ ds \in Seq(Detections(c)) /\ Len(ds) = 1 /\ ds[1].conf = "high"
                /\ Track!Apart(ds[1].at, u.last) <= 1 /\ nextId \in Nat /\ Track!Update(ds)
            BY <2>1, <2>2, <2>3, <3>5, <4>2, <4>4
          <5> QED BY <4>4, <4>5, <5>1, SameMet
        <4>7. /\ sight'.at = ds[1].at /\ sight'.when = batch'
              /\ sight'.ids \subseteq {1}
          BY <2>2, <2>5, <3>5, <4>1, <4>4, <4>6, AloneIn
        <4>8. batch' > 0 /\ batch' - sight'.when = 0
          BY <2>2, <2>3, <4>7
        <4> QED BY <4>1, <4>4, <4>6, <4>7, <4>8 DEF OnlyOne
      <3> QED BY <3>1, <3>3, <3>4, <3>5
    <2> QED BY <2>4, <2>7, <2>8 DEF TrackInv
  <1>3. ASSUME TrackInv(c), UNCHANGED Track!trackerVars PROVE TrackInv(c)'
    BY <1>3 DEF Track!trackerVars, TrackInv, OnlyOne
  <1>4. ASSUME TrackInv(c) PROVE Track!OneIdEach
    <2>1. ASSUME sight.steady PROVE Track!Cardinality(sight.ids) <= 1
      <3>1. sight.ids \in {{}, {1}}
        <4>1. sight.steady = TRUE
          BY <1>4, <2>1 DEF TrackInv
        <4>2. OnlyOne
          BY <1>4, <4>1 DEF TrackInv
        <4> QED BY <4>2 DEF OnlyOne
      <3>2. Cardinality({}) = 0
        BY FS_EmptySet
      <3>3. Cardinality({1}) = 1
        BY FS_Singleton
      <3>4. Cardinality(sight.ids) \in {0, 1}
        BY <3>1, <3>2, <3>3
      <3>5. Track!Cardinality(sight.ids) \in {0, 1}
        BY <3>4, TrackCounts
      <3> QED BY <3>5
    <2> QED BY <1>4, <2>1 DEF TrackInv, Track!OneIdEach
  <1> QED BY <1>1, <1>2, <1>3, <1>4 DEF Track!Next

-----------------------------------------------------------------------------
(* analytics_rules. *)

(* Of a path s: it is inside the polygon of rule r at step i, in a visit that began at e, *)
(* and has lingered there; and the alarm that is due for it.                              *)
Path == Seq([at : Places, pts : Nat])
Into(r, s, i) == Rules!Inside(RuleSet[r].polygon, s[i].at)
Begun(r, s, i, e) == /\ e \in 1..i /\ \A j \in e..i : Into(r, s, j)
                     /\ e = 1 \/ ~Into(r, s, e - 1)
Late(r, s, i, e) == /\ i > 1 /\ Into(r, s, i) /\ Into(r, s, i - 1)
                    /\ s[i].pts - s[e].pts >= RuleSet[r].seconds
Deserved(r, s, i) ==
    IF RuleSet[r].type = "intrusion" THEN Into(r, s, i) /\ (i = 1 \/ ~Into(r, s, i - 1))
    ELSE \E e : /\ Begun(r, s, i, e) /\ Late(r, s, i, e)
                /\ \A j \in e..(i - 1) : ~Late(r, s, j, e)
Over(r, s, j) == Rules!Left(r, s[j - 1].at) /\ Rules!Right(r, s[j].at)

(* The latch of a rule knows the visit. *)
Latch(r, z, s) ==
    LET n == Len(s) IN
    /\ z \in [inside : BOOLEAN, fired : BOOLEAN, enter : Nat]
    /\ z.inside <=> n > 0 /\ Into(r, s, n)
    /\ RuleSet[r].type = "loiter" /\ z.inside =>
         \E e : /\ Begun(r, s, n, e) /\ z.enter = s[e].pts
                /\ z.fired <=> \E j \in e..n : Late(r, s, j, e)
Raised(r, as, s) ==
    IF RuleSet[r].type = "linecross"
    THEN RuleSet[r].direction = "lr" =>
             \A j \in 1..Len(s) : Rules!Alarm(r, j) \in as <=> j > 1 /\ Over(r, s, j)
    ELSE /\ \A i \in 1..Len(s) : Rules!Alarm(r, i) \in as <=> Deserved(r, s, i)
         /\ \A i \in 1..Len(s) : Into(r, s, i) => \E e : Begun(r, s, i, e)
Kept(t, s, as) ==
    /\ s \in Path
    /\ t.known <=> Len(s) > 0
    /\ t.known => t.prev = s[Len(s)].at
    /\ as \subseteq [rule : DOMAIN RuleSet, step : 1..Len(s)]
    /\ \A r \in DOMAIN RuleSet :
         /\ Raised(r, as, s)
         /\ RuleSet[r].type # "linecross" => Latch(r, t.zones[r], s)
RulesInv == /\ stamps \in Seq(Nat) /\ path \in [Persons -> Path]
            /\ \A k \in Persons : /\ Kept(ruleTracks[k], path[k], alarms[k])
                                  /\ ~ruleTracks[k].known => ruleTracks[k] = Rules!Unknown

(* The rules are of the three kinds, and at the places looked at the geometry does what it *)
(* should: inside is on one side of every edge, and to pass from the left of a tripwire to *)
(* its right is to cross it.                                                               *)
Surveyed ==
    \A r \in DOMAIN RuleSet :
       /\ RuleSet[r].type \in {"intrusion", "loiter", "linecross"}
       /\ RuleSet[r].type = "loiter" => RuleSet[r].seconds \in Nat
       /\ RuleSet[r].type # "linecross" =>
            \A p \in Places : Rules!point_in_polygon(RuleSet[r].polygon, p)
                              <=> Rules!Inside(RuleSet[r].polygon, p)
       /\ RuleSet[r].type = "linecross" =>
            \A p, q \in Places : Rules!Left(r, p) /\ Rules!Right(r, q) =>
                Rules!segments_intersect(p, q, RuleSet[r].line[1], RuleSet[r].line[2])

(* A visit begins once. *)
LEMMA BegunOnce ==
  ASSUME NEW r, NEW s, NEW i \in Nat, NEW d, NEW e, Begun(r, s, i, d), Begun(r, s, i, e)
  PROVE  d = e
  <1>1. d \in 1..i /\ e \in 1..i
    BY DEF Begun
  <1>2. ASSUME NEW x \in 1..i, NEW y \in 1..i, Begun(r, s, i, x), Begun(r, s, i, y), x < y
        PROVE  FALSE
    <2>1. y - 1 \in x..i /\ y # 1
      BY <1>2
    <2> QED BY <1>2, <2>1 DEF Begun
  <1>3. d < e \/ e < d \/ d = e
    BY <1>1
  <1> QED BY <1>1, <1>2, <1>3

(* A longer path has the same visits. *)
LEMMA SamePast ==
  ASSUME NEW s \in Path, NEW x \in [at : Places, pts : Nat], NEW r
  PROVE  LET a == Append(s, x)
             n == Len(s)
         IN /\ a \in Path /\ n \in Nat /\ Len(a) = n + 1 /\ a[n + 1] = x
            /\ \A i \in 1..n : a[i] = s[i] /\ (Into(r, a, i) <=> Into(r, s, i))
            /\ \A i \in 1..n : \A e : Begun(r, a, i, e) <=> Begun(r, s, i, e)
            /\ \A i \in 1..n : \A e \in 1..n : Late(r, a, i, e) <=> Late(r, s, i, e)
            /\ \A i \in 1..n : Deserved(r, a, i) <=> Deserved(r, s, i)
  <1> DEFINE a == Append(s, x)
             n == Len(s)
  <1>1. /\ a \in Path /\ n \in Nat /\ Len(a) = n + 1 /\ a[n + 1] = x
        /\ \A i \in 1..n : a[i] = s[i]
    BY AppendProperties, LenProperties DEF Path
  <1> HIDE DEF a, n
  <1>2. \A i \in 1..n : Into(r, a, i) <=> Into(r, s, i)
    BY <1>1 DEF Into
  <1>3. ASSUME NEW i \in 1..n, NEW e PROVE Begun(r, a, i, e) <=> Begun(r, s, i, e)
    <2>1. CASE e \in 1..i
      <3>1. (\A j \in e..i : j \in 1..n) /\ (e # 1 => e - 1 \in 1..n)
        BY <1>1, <2>1
      <3> QED BY <1>2, <3>1 DEF Begun
    <2> QED BY <2>1 DEF Begun
  <1>4. ASSUME NEW i \in 1..n, NEW e \in 1..n PROVE Late(r, a, i, e) <=> Late(r, s, i, e)
    <2>1. i > 1 => i - 1 \in 1..n
      BY <1>1
    <2> QED BY <1>1, <1>2, <2>1 DEF Late
  <1>5. ASSUME NEW i \in 1..n PROVE Deserved(r, a, i) <=> Deserved(r, s, i)
    <2>1. CASE RuleSet[r].type = "intrusion"
      <3>1. i # 1 => i - 1 \in 1..n
        BY <1>1
      <3> QED BY <1>2, <2>1, <3>1 DEF Deserved
    <2>2. CASE RuleSet[r].type # "intrusion"
      <3>1. ASSUME NEW e, Begun(r, s, i, e)
            PROVE  /\ Late(r, a, i, e) <=> Late(r, s, i, e)
                   /\ \A j \in e..(i - 1) : Late(r, a, j, e) <=> Late(r, s, j, e)
        <4>1. e \in 1..n /\ \A j \in e..(i - 1) : j \in 1..n
          BY <1>1, <3>1 DEF Begun
        <4> QED BY <1>4, <4>1
      <3> QED BY <1>3, <2>2, <3>1 DEF Deserved
    <2> QED BY <2>1, <2>2
  <1> QED BY <1>1, <1>2, <1>3, <1>4, <1>5 DEF a, n

(* A step of a polygon's rule: it fires as deserved, and its latch follows the visit. *)
LEMMA ZoneStep ==
  ASSUME Surveyed, NEW r \in DOMAIN RuleSet, RuleSet[r].type # "linecross",
         NEW t, NEW s \in Path, NEW z, Latch(r, z, s),
         NEW cur \in Places, NEW tick \in Nat
  PROVE  LET did == Rules!Step(RuleSet[r], t, z, cur, tick)
             a == Append(s, [at |-> cur, pts |-> tick])
         IN /\ did.fire <=> Deserved(r, a, Len(s) + 1)
            /\ Latch(r, did.zone, a)
            /\ Into(r, a, Len(s) + 1) /\ (Len(s) > 0 /\ Into(r, s, Len(s)) =>
                  \E e : Begun(r, s, Len(s), e)) => \E e : Begun(r, a, Len(s) + 1, e)
  <1> DEFINE did == Rules!Step(RuleSet[r], t, z, cur, tick)
             x == [at |-> cur, pts |-> tick]
             a == Append(s, x)
             n == Len(s)
             in == Rules!point_in_polygon(RuleSet[r].polygon, cur)
             Flags == [inside : BOOLEAN, fired : BOOLEAN, enter : Nat]
  <1>1. x \in [at : Places, pts : Nat] /\ x.at = cur /\ x.pts = tick
    OBVIOUS
  <1> HIDE DEF x
  <1>2. /\ a \in Path /\ n \in Nat /\ Len(a) = n + 1 /\ a[n + 1] = x
        /\ \A i \in 1..n : a[i] = s[i] /\ (Into(r, a, i) <=> Into(r, s, i))
        /\ \A i \in 1..n : \A e : Begun(r, a, i, e) <=> Begun(r, s, i, e)
        /\ \A i \in 1..n : \A e \in 1..n : Late(r, a, i, e) <=> Late(r, s, i, e)
    BY <1>1, SamePast
  <1>3. in \in BOOLEAN /\ (in <=> Into(r, a, n + 1))
    BY <1>1, <1>2 DEF Surveyed, Into, Rules!point_in_polygon
  <1>4. /\ z \in Flags
        /\ z.inside <=> n > 0 /\ Into(r, s, n)
    BY DEF Latch
  <1> HIDE DEF a, n, in
  <1>5. n + 1 \in 1..(n + 1) /\ (n > 0 => n \in 1..n) /\ (n + 1) - 1 = n /\ n + 1 > 0
    BY <1>2
  <1>6. ASSUME Into(r, a, n + 1), ~z.inside PROVE Begun(r, a, n + 1, n + 1)
    <2>1. \A j \in (n + 1)..(n + 1) : j = n + 1
      BY <1>2
    <2>2. n + 1 = 1 \/ ~Into(r, a, n)
      BY <1>2, <1>4, <1>5, <1>6
    <2> QED BY <1>2, <1>5, <1>6, <2>1, <2>2 DEF Begun
  <1>7. ASSUME Into(r, a, n + 1), n > 0, NEW e, Begun(r, s, n, e) PROVE Begun(r, a, n + 1, e)
    <2>1. Begun(r, a, n, e)
      BY <1>2, <1>5, <1>7
    <2>2. e \in 1..(n + 1) /\ \A j \in e..(n + 1) : j \in e..n \/ j = n + 1
      BY <1>2, <2>1 DEF Begun
    <2> QED BY <1>7, <2>1, <2>2 DEF Begun
  <1>8. Into(r, a, n + 1) /\ (n > 0 /\ Into(r, s, n) => \E e : Begun(r, s, n, e))
           => \E e : Begun(r, a, n + 1, e)
    BY <1>4, <1>6, <1>7
  <1>9. CASE RuleSet[r].type = "intrusion"
    <2>1. did = Rules!intrusion_step(z, in)
      BY <1>9 DEF Rules!Step, in
    <2> DEFINE zone == did.zone
               fired == z.fired /\ in
               enters == in /\ ~z.inside
               left == [z EXCEPT !.inside = in, !.fired = fired]
    <2>2. did = [fire |-> enters, zone |-> left] /\ fired \in BOOLEAN
      BY <2>1 DEF Rules!intrusion_step
    <2> HIDE DEF enters, left
    <2>3. (did.fire <=> enters) /\ zone = left
      <3> HIDE DEF did
      <3> QED BY <2>2
    <2>4. zone = [z EXCEPT !.inside = in, !.fired = fired]
      BY <2>3 DEF left
    <2> HIDE DEF did, zone, fired
    <2>5. zone \in Flags /\ zone.inside = in
      BY <1>3, <1>4, <2>2, <2>4
    <2>6. did.fire <=> Deserved(r, a, n + 1)
      <3>1. Deserved(r, a, n + 1) <=> Into(r, a, n + 1) /\ (n + 1 = 1 \/ ~Into(r, a, n))
        BY <1>5, <1>9 DEF Deserved
      <3>2. n + 1 = 1 <=> ~(n > 0)
        BY <1>2
      <3>3. n > 0 => (Into(r, a, n) <=> Into(r, s, n))
        BY <1>2, <1>5
      <3> QED BY <1>3, <1>4, <2>3, <3>1, <3>2, <3>3 DEF enters
    <2>7. Latch(r, zone, a)
      BY <1>2, <1>3, <1>5, <1>9, <2>5 DEF Latch
    <2> QED BY <1>8, <2>6, <2>7 DEF did, zone, a, n, x
  <1>10. CASE RuleSet[r].type = "loiter"
    <2> DEFINE sec == RuleSet[r].seconds
               due == in /\ z.inside /\ ~z.fired /\ tick >= z.enter /\ tick - z.enter >= sec
               new == IF in /\ ~z.inside THEN [inside |-> TRUE, fired |-> FALSE, enter |-> tick]
                      ELSE [z EXCEPT !.inside = in, !.fired = (@ \/ due) /\ in]
    <2>1. did = [fire |-> due, zone |-> new]
      <3>1. did = Rules!loiter_step(z, in, tick, sec)
        BY <1>10 DEF Rules!Step, in
      <3> QED BY <3>1 DEF Rules!loiter_step
    <2>2. (did.fire <=> due) /\ did.zone = new
      <3> HIDE DEF due, new
      <3> QED BY <2>1
    <2> HIDE DEF did
    <2>3. CASE ~in
      <3> DEFINE fired == (z.fired \/ due) /\ in
      <3>1. new = [z EXCEPT !.inside = in, !.fired = fired] /\ fired \in BOOLEAN
        BY <2>3
      <3>2. ~due
        BY <2>3
      <3> HIDE DEF fired, due, new
      <3>3. new \in Flags /\ ~new.inside
        BY <1>3, <1>4, <2>3, <3>1
      <3>4. Latch(r, new, a)
        BY <1>2, <1>3, <2>3, <3>3 DEF Latch
      <3>5. ~Deserved(r, a, n + 1)
        BY <1>3, <1>5, <1>10, <2>3 DEF Deserved, Late
      <3> QED BY <1>8, <2>2, <3>2, <3>4, <3>5 DEF did, a, n, x
    <2>4. CASE in /\ ~z.inside
      <3>1. new = [inside |-> TRUE, fired |-> FALSE, enter |-> tick] /\ ~due
        BY <2>4
      <3> HIDE DEF due, new
      <3>2. new \in Flags /\ new.inside /\ ~new.fired /\ new.enter = tick
        BY <3>1
      <3>3. Begun(r, a, n + 1, n + 1)
        BY <1>3, <1>6, <2>4
      <3>4. \A e : ~Late(r, a, n + 1, e)
        <4>1. n > 0 => ~Into(r, a, n)
          BY <1>2, <1>4, <1>5, <2>4
        <4>2. n + 1 > 1 => n > 0
          BY <1>2
        <4> QED BY <1>5, <4>1, <4>2 DEF Late
      <3>5. ~Deserved(r, a, n + 1)
        BY <1>10, <3>4 DEF Deserved
      <3>6. \A j \in (n + 1)..(n + 1) : j = n + 1
        BY <1>2
      <3>7. Latch(r, new, a)
        BY <1>1, <1>2, <1>3, <1>5, <2>4, <3>2, <3>3, <3>4, <3>6 DEF Latch
      <3> QED BY <1>8, <2>2, <3>1, <3>5, <3>7 DEF did, a, n, x
    <2>5. CASE in /\ z.inside
      <3>1. PICK e : /\ Begun(r, s, n, e) /\ z.enter = s[e].pts
                     /\ z.fired <=> \E j \in e..n : Late(r, s, j, e)
        BY <1>10, <2>5 DEF Latch, n
      <3>2. n > 0 /\ Into(r, s, n) /\ e \in 1..n /\ e \in Nat
        BY <1>2, <1>4, <2>5, <3>1 DEF Begun
      <3>3. Begun(r, a, n + 1, e)
        BY <1>3, <1>7, <2>5, <3>1, <3>2
      <3>4. z.enter \in Nat /\ sec \in Nat /\ a[e].pts = z.enter
        BY <1>2, <1>4, <1>10, <3>1, <3>2 DEF n, Surveyed
      <3>5. Late(r, a, n + 1, e) <=> tick - z.enter >= sec
        BY <1>1, <1>2, <1>3, <1>5, <2>5, <3>2, <3>4 DEF Late
      <3>6. z.fired <=> \E j \in e..n : Late(r, a, j, e)
        <4>1. \A j \in e..n : j \in 1..n
          BY <1>2, <3>2
        <4> QED BY <1>2, <3>1, <3>2, <4>1
      <3>7. due <=> ~z.fired /\ Late(r, a, n + 1, e)
        <4>1. tick - z.enter >= sec => tick >= z.enter
          BY <3>4
        <4> QED BY <2>5, <3>5, <4>1
      <3> DEFINE fired == (z.fired \/ due) /\ in
      <3>8. new = [z EXCEPT !.inside = in, !.fired = fired] /\ fired \in BOOLEAN
        BY <2>5
      <3>9. fired <=> \E j \in e..(n + 1) : Late(r, a, j, e)
        <4>1. \A j : j \in e..(n + 1) <=> j \in e..n \/ j = n + 1
          BY <1>2, <3>2
        <4> QED BY <2>5, <3>6, <3>7, <4>1
      <3> HIDE DEF fired, due, new
      <3>10. new \in Flags /\ new.inside /\ new.fired = fired /\ new.enter = z.enter
        BY <1>3, <1>4, <2>5, <3>8
      <3>11. Latch(r, new, a)
        BY <1>2, <1>3, <1>5, <2>5, <3>3, <3>4, <3>9, <3>10 DEF Latch
      <3>12. due <=> Deserved(r, a, n + 1)
        <4>1. \A d : Begun(r, a, n + 1, d) => d = e
          BY <1>2, <3>3, BegunOnce
        <4> QED BY <1>5, <1>10, <3>3, <3>6, <3>7, <4>1 DEF Deserved
      <3> QED BY <1>8, <2>2, <3>11, <3>12 DEF did, a, n, x
    <2> QED BY <1>3, <2>3, <2>4, <2>5
  <1> QED BY <1>9, <1>10 DEF Surveyed

(* What becomes of a track in an event, and the alarms it fires. *)
Stepped(t, cur, tick) ==
    [known |-> TRUE, prev |-> cur, lastSeen |-> tick,
     zones |-> [r \in DOMAIN RuleSet |-> Rules!Step(RuleSet[r], t, t.zones[r], cur, tick).zone]]
Firing(t, s, cur, tick) ==
    {Rules!Alarm(r, Len(s) + 1) :
       r \in {r \in DOMAIN RuleSet : Rules!Step(RuleSet[r], t, t.zones[r], cur, tick).fire}}

(* A track in an event: its alarms so far stay, those that fire are added. *)
LEMMA KeptStep ==
  ASSUME Surveyed, NEW t, NEW s, NEW as, Kept(t, s, as),
         NEW cur \in Places, NEW tick \in Nat
  PROVE  Kept(Stepped(t, cur, tick), Append(s, [at |-> cur, pts |-> tick]),
              as \union Firing(t, s, cur, tick))
  <1> DEFINE did(r) == Rules!Step(RuleSet[r], t, t.zones[r], cur, tick)
             x == [at |-> cur, pts |-> tick]
             a == Append(s, x)
             n == Len(s)
             zones1 == [r \in DOMAIN RuleSet |-> did(r).zone]
             u == [known |-> TRUE, prev |-> cur, lastSeen |-> tick, zones |-> zones1]
             fresh == {Rules!Alarm(r, n + 1) : r \in {r \in DOMAIN RuleSet : did(r).fire}}
             bs == as \union fresh
  <1>1. x \in [at : Places, pts : Nat] /\ x.at = cur /\ x.pts = tick
    OBVIOUS
  <1>2. s \in Path
    BY DEF Kept
  <1> HIDE DEF x
  <1>3. /\ a \in Path /\ n \in Nat /\ Len(a) = n + 1 /\ a[n + 1] = x
        /\ \A i \in 1..n : a[i] = s[i]
    BY <1>1, <1>2, SamePast
  <1>4. /\ u.known /\ u.prev = cur /\ u.zones = zones1
        /\ \A r \in DOMAIN RuleSet : zones1[r] = did(r).zone
    OBVIOUS
  <1>5. as \subseteq [rule : DOMAIN RuleSet, step : 1..n]
    BY DEF Kept
  <1>6. \A r \in DOMAIN RuleSet :
          /\ Rules!Alarm(r, n + 1) \in bs <=> did(r).fire
          /\ \A i \in 1..n : Rules!Alarm(r, i) \in bs <=> Rules!Alarm(r, i) \in as
    <2>1. \A i \in 1..n : i # n + 1
      BY <1>3
    <2>2. \A r \in DOMAIN RuleSet : Rules!Alarm(r, n + 1) \notin as
      <3>1. n + 1 \notin 1..n
        BY <1>3
      <3> HIDE DEF n
      <3> QED BY <1>5, <3>1 DEF Rules!Alarm
    <2> HIDE DEF did, n
    <2> QED BY <2>1, <2>2 DEF Rules!Alarm
  <1>7. bs \subseteq [rule : DOMAIN RuleSet, step : 1..(n + 1)]
    <2>1. as \subseteq [rule : DOMAIN RuleSet, step : 1..(n + 1)]
      <3>1. \A i \in 1..n : i \in 1..(n + 1)
        BY <1>3
      <3> HIDE DEF n
      <3> QED BY <1>5, <3>1
    <2>2. fresh \subseteq [rule : DOMAIN RuleSet, step : 1..(n + 1)]
      <3>1. n + 1 \in 1..(n + 1)
        BY <1>3
      <3> HIDE DEF did, n
      <3> QED BY <3>1 DEF Rules!Alarm
    <2> HIDE DEF fresh, n
    <2> QED BY <2>1, <2>2
  <1> HIDE DEF a, n, bs, u, zones1
  <1>8. ASSUME NEW r \in DOMAIN RuleSet, RuleSet[r].type # "linecross"
        PROVE  Raised(r, bs, a) /\ Latch(r, u.zones[r], a)
    <2>1. Raised(r, as, s) /\ Latch(r, t.zones[r], s)
      BY <1>8 DEF Kept
    <2>3. /\ did(r).fire <=> Deserved(r, a, n + 1)
          /\ Latch(r, did(r).zone, a)
          /\ Into(r, a, n + 1) /\ (n > 0 /\ Into(r, s, n) => \E e : Begun(r, s, n, e))
                => \E e : Begun(r, a, n + 1, e)
      BY <1>2, <1>8, <2>1, ZoneStep DEF a, n, x
    <2> HIDE DEF did
    <2>4. /\ \A i \in 1..n : Into(r, a, i) <=> Into(r, s, i)
          /\ \A i \in 1..n : \A e : Begun(r, a, i, e) <=> Begun(r, s, i, e)
          /\ \A i \in 1..n : Deserved(r, a, i) <=> Deserved(r, s, i)
      BY <1>1, <1>2, SamePast DEF a, n
    <2>5. \A i \in 1..(n + 1) : i \in 1..n \/ i = n + 1
      BY <1>3
    <2>6. \A i \in 1..(n + 1) : Rules!Alarm(r, i) \in bs <=> Deserved(r, a, i)
      BY <1>6, <1>8, <2>1, <2>3, <2>4, <2>5 DEF Raised, n
    <2>7. n > 0 => n \in 1..n
      BY <1>3
    <2>8. \A i \in 1..(n + 1) : Into(r, a, i) => \E e : Begun(r, a, i, e)
      BY <1>8, <2>1, <2>3, <2>4, <2>5, <2>7 DEF Raised, n
    <2> QED BY <1>3, <1>4, <1>8, <2>3, <2>6, <2>8 DEF Raised
  <1>9. ASSUME NEW r \in DOMAIN RuleSet, RuleSet[r].type = "linecross", RuleSet[r].direction = "lr"
        PROVE  Raised(r, bs, a)
    <2> DEFINE crosses == Rules!segments_intersect(t.prev, cur, RuleSet[r].line[1], RuleSet[r].line[2])
               way == Rules!crossingDirection(RuleSet[r].line, t.prev, cur)
               fires == t.known /\ crosses /\ RuleSet[r].direction \in {"any", way}
               z == t.zones[r]
    <2>1. did(r) = [fire |-> fires, zone |-> z]
      BY <1>9 DEF Rules!Step
    <2>2. way = "lr" <=> Rules!Left(r, t.prev) /\ Rules!Right(r, cur)
      BY DEF Rules!Left, Rules!Right, Rules!crossingDirection
    <2> HIDE DEF did
    <2>3. did(r).fire <=> t.known /\ crosses /\ way = "lr"
      <3>1. fires <=> t.known /\ crosses /\ way = "lr"
        <4> HIDE DEF crosses, way
        <4> QED BY <1>9
      <3> HIDE DEF fires, crosses, way, z
      <3>2. did(r).fire = fires
        BY <2>1
      <3> QED BY <3>1, <3>2
    <2> HIDE DEF fires, way
    <2>4. Rules!Alarm(r, n + 1) \in bs <=> n + 1 > 1 /\ Over(r, a, n + 1)
      <3>1. CASE n = 0
        <4>1. ~t.known
          BY <3>1 DEF Kept, n
        <4> QED BY <1>6, <2>3, <3>1, <4>1
      <3>2. CASE n # 0
        <4>1. n \in 1..n /\ n > 0 /\ (n + 1) - 1 = n /\ n + 1 > 1
          BY <1>3, <3>2
        <4>2. t.known /\ t.prev = s[n].at
          BY <4>1 DEF Kept, n
        <4>3. t.prev \in Places
          <5>1. s[n] \in [at : Places, pts : Nat]
            BY <1>2, <4>1, ElementOfSeq, LenProperties DEF Path, n
          <5> QED BY <4>2, <5>1
        <4>4. way = "lr" => crosses
          BY <1>9, <2>2, <4>3 DEF Surveyed
        <4> HIDE DEF crosses
        <4>5. Over(r, a, n + 1) <=> way = "lr"
          BY <1>1, <1>3, <2>2, <4>1, <4>2 DEF Over
        <4> QED BY <1>6, <2>3, <4>1, <4>2, <4>4, <4>5
      <3> QED BY <3>1, <3>2
    <2>5. ASSUME NEW j \in 1..n PROVE Rules!Alarm(r, j) \in bs <=> j > 1 /\ Over(r, a, j)
      <3>1. Rules!Alarm(r, j) \in as <=> j > 1 /\ Over(r, s, j)
        BY <1>9 DEF Kept, Raised, n
      <3>2. j > 1 => j - 1 \in 1..n
        BY <1>3
      <3>3. j > 1 => (Over(r, s, j) <=> Over(r, a, j))
        BY <1>3, <3>2 DEF Over
      <3> QED BY <1>6, <3>1, <3>3
    <2>6. \A j \in 1..(n + 1) : j \in 1..n \/ j = n + 1
      BY <1>3
    <2> QED BY <1>3, <1>9, <2>4, <2>5, <2>6 DEF Raised
  <1> HIDE DEF did
  <1>11. ASSUME NEW r \in DOMAIN RuleSet PROVE Raised(r, bs, a)
    <2>1. CASE RuleSet[r].type = "linecross" /\ RuleSet[r].direction # "lr"
      BY <2>1 DEF Raised
    <2> QED BY <1>8, <1>9, <2>1
  <1>12. Len(a) > 0
    BY <1>3
  <1>13. Kept(u, a, bs)
    BY <1>1, <1>3, <1>4, <1>7, <1>8, <1>11, <1>12 DEF Kept
  <1> QED BY <1>13 DEF a, n, bs, u, zones1, did, x, Stepped, Firing

(* An unknown track has no path and no alarms. *)
LEMMA KeptAnew ==
  ASSUME Surveyed
  PROVE  Kept(Rules!Unknown, << >>, {}) /\ ~Rules!Unknown.known
  <1> DEFINE zone == [inside |-> FALSE, fired |-> FALSE, enter |-> 0]
  <1>1. << >> \in Path /\ Len(<< >>) = 0
    BY EmptySeq DEF Path
  <1>2. /\ ~Rules!Unknown.known
        /\ \A r \in DOMAIN RuleSet : Rules!Unknown.zones[r] = zone
    BY DEF Rules!Unknown
  <1>3. zone \in [inside : BOOLEAN, fired : BOOLEAN, enter : Nat] /\ ~zone.inside
    OBVIOUS
  <1> HIDE DEF zone
  <1>4. ASSUME NEW r \in DOMAIN RuleSet
        PROVE  Raised(r, {}, << >>) /\ Latch(r, Rules!Unknown.zones[r], << >>)
    BY <1>1, <1>2, <1>3 DEF Raised, Latch
  <1> QED BY <1>1, <1>2, <1>4 DEF Kept

LEMMA RulesHold ==
  ASSUME Surveyed, Stamps \subseteq Seq(Nat)
  PROVE  /\ Rules!Init \/ Rules!Off => RulesInv
         /\ RulesInv /\ [Rules!Next]_Rules!rulesVars => RulesInv'
  <1>1. ASSUME Rules!Init \/ Rules!Off PROVE RulesInv
    <2>1. /\ path = [k \in Persons |-> << >>] /\ << >> \in Path
          /\ \A k \in Persons : ruleTracks[k] = Rules!Unknown /\ alarms[k] = {}
      BY <1>1, EmptySeq DEF Rules!Init, Rules!Off, Rules!Rest, Path
    <2>2. stamps \in Seq(Nat)
      BY <1>1, EmptySeq DEF Rules!Init, Rules!Off
    <2> QED BY <2>1, <2>2, KeptAnew DEF RulesInv
  <1>2. ASSUME RulesInv, Rules!Next PROVE RulesInv'
    <2> DEFINE tick == Head(stamps)
    <2>1. PICK seen \in SUBSET Persons : \E at \in [seen -> Places] : Rules!HandleEvent(tick, at)
      BY <1>2 DEF Rules!Next
    <2>a. PICK at \in [seen -> Places] : Rules!HandleEvent(tick, at)
      BY <2>1
    <2>2. tick \in Nat /\ stamps' \in Seq(Nat)
      BY <1>2, HeadTailProperties DEF RulesInv, Rules!Next
    <2> HIDE DEF tick
    <2> DEFINE old(k) == Rules!Pruned(ruleTracks[k], tick)
               trail(k) == IF old(k).known THEN path[k] ELSE << >>
               base(k) == IF old(k).known THEN alarms[k] ELSE {}
               stepped(k) == Stepped(old(k), at[k], tick)
               further(k) == Append(trail(k), [at |-> at[k], pts |-> tick])
               fired(k) == Firing(old(k), trail(k), at[k], tick)
    <2>3. ASSUME NEW k \in Persons
          PROVE  /\ Kept(old(k), trail(k), base(k))
                 /\ ~old(k).known => old(k) = Rules!Unknown
      <3>1. old(k) = Rules!Unknown \/ old(k) = ruleTracks[k]
        BY DEF Rules!Pruned
      <3>2. CASE old(k).known
        <4>1. old(k) = ruleTracks[k]
          BY <2>2, <3>1, <3>2, KeptAnew
        <4> QED BY <1>2, <3>2, <4>1 DEF RulesInv
      <3>3. CASE ~old(k).known
        <4>1. old(k) = Rules!Unknown
          BY <1>2, <3>1, <3>3 DEF RulesInv
        <4>2. trail(k) = << >> /\ base(k) = {}
          BY <3>3
        <4> HIDE DEF old, trail, base
        <4> QED BY <2>2, <4>1, <4>2, KeptAnew
      <3> QED BY <3>2, <3>3
    <2>4. /\ ruleTracks' = [k \in Persons |-> IF k \in seen THEN stepped(k) ELSE old(k)]
          /\ path' = [k \in Persons |-> IF k \in seen THEN further(k) ELSE trail(k)]
          /\ alarms' = [k \in Persons |-> base(k) \union (IF k \in seen THEN fired(k) ELSE {})]
      BY <2>a DEF Rules!HandleEvent, Stepped, Firing
    <2>5. ASSUME NEW k \in Persons
          PROVE  /\ Kept(ruleTracks'[k], path'[k], alarms'[k])
                 /\ ~ruleTracks'[k].known => ruleTracks'[k] = Rules!Unknown
                 /\ path'[k] \in Path
      <3>1. CASE k \in seen
        <4>1. Kept(stepped(k), further(k), base(k) \union fired(k))
          <5>1. at[k] \in Places
            BY <3>1
          <5> QED BY <2>2, <2>3, <5>1, KeptStep
        <4>2. stepped(k).known
          BY DEF Stepped
        <4> HIDE DEF stepped, further, base, fired
        <4>3. ruleTracks'[k] = stepped(k) /\ path'[k] = further(k)
              /\ alarms'[k] = base(k) \union fired(k)
          BY <2>4, <3>1
        <4> QED BY <4>1, <4>2, <4>3 DEF Kept
      <3>2. CASE k \notin seen
        <4> HIDE DEF stepped, further, base, fired, old, trail
        <4>1. ruleTracks'[k] = old(k) /\ path'[k] = trail(k) /\ alarms'[k] = base(k)
          BY <2>4, <3>2
        <4> QED BY <2>3, <4>1 DEF Kept
      <3> QED BY <3>1, <3>2
    <2> HIDE DEF stepped, further, base, fired, old, trail
    <2>6. path' \in [Persons -> Path]
      BY <2>4, <2>5
    <2> QED BY <2>2, <2>4, <2>5, <2>6 DEF RulesInv
  <1>3. RulesInv /\ UNCHANGED Rules!rulesVars => RulesInv'
    BY DEF RulesInv, Rules!rulesVars
  <1> QED BY <1>1, <1>2, <1>3

(* The alarms of a polygon's rule are those due by the rule's meaning. *)
LEMMA VisitsReported ==
  ASSUME Surveyed, RulesInv
  PROVE  Rules!AlarmPerVisit
  <1> SUFFICES ASSUME NEW k \in Persons, NEW r \in DOMAIN RuleSet, RuleSet[r].type # "linecross"
               PROVE  {a.step : a \in {a \in alarms[k] : a.rule = r}}
                      = {i \in DOMAIN path[k] : Rules!Due(k, r, i)}
    BY DEF Rules!AlarmPerVisit
  <1> DEFINE s == path[k]
             n == Len(s)
  <1>1. /\ s \in Path /\ Raised(r, alarms[k], s) /\ DOMAIN s = 1..n /\ n \in Nat
        /\ alarms[k] \subseteq [rule : DOMAIN RuleSet, step : 1..n]
    BY LenProperties DEF RulesInv, Kept, Path
  <1>2. \A i : Rules!In(k, r, i) <=> Into(r, s, i)
    BY DEF Rules!In, Into
  <1>3. ASSUME NEW i \in 1..n, NEW e, Begun(r, s, i, e) PROVE Rules!Entry(k, r, i) = e
    <2> DEFINE c == CHOOSE c \in 1..i : /\ \A j \in c..i : Rules!In(k, r, j)
                                        /\ c = 1 \/ ~Rules!In(k, r, c - 1)
    <2>1. Begun(r, s, i, c)
      <3>1. \E d \in 1..i : /\ \A j \in d..i : Rules!In(k, r, j)
                            /\ d = 1 \/ ~Rules!In(k, r, d - 1)
        BY <1>2, <1>3 DEF Begun
      <3>2. c \in 1..i /\ (\A j \in c..i : Rules!In(k, r, j)) /\ (c = 1 \/ ~Rules!In(k, r, c - 1))
        BY <3>1
      <3> HIDE DEF c
      <3> QED BY <1>2, <3>2 DEF Begun
    <2> HIDE DEF c
    <2>2. c = e
      BY <1>1, <1>3, <2>1, BegunOnce
    <2> QED BY <2>2 DEF Rules!Entry, c
  <1> HIDE DEF n
  <1>4. ASSUME NEW i \in 1..n, NEW e, Begun(r, s, i, e) PROVE Rules!Lingers(k, r, i) <=> Late(r, s, i, e)
    BY <1>2, <1>3, <1>4 DEF Rules!Lingers, Late
  <1>5. ASSUME NEW i \in 1..n PROVE Rules!Due(k, r, i) <=> Deserved(r, s, i)
    <2>1. CASE RuleSet[r].type = "intrusion"
      BY <1>2, <2>1 DEF Rules!Due, Deserved
    <2>2. CASE RuleSet[r].type = "loiter"
      <3>1. CASE ~Into(r, s, i)
        BY <1>1, <1>2, <2>2, <3>1 DEF Rules!Due, Rules!Lingers, Deserved, Late
      <3>2. ASSUME NEW e, Begun(r, s, i, e) PROVE Rules!Due(k, r, i) <=> Deserved(r, s, i)
        <4>1. Rules!Entry(k, r, i) = e /\ (Rules!Lingers(k, r, i) <=> Late(r, s, i, e))
          BY <1>3, <1>4, <3>2
        <4>2. ASSUME NEW j \in e..(i - 1) PROVE Rules!Lingers(k, r, j) <=> Late(r, s, j, e)
          <5>1. j \in 1..n /\ e \in 1..j /\ \A m \in e..j : m \in e..i
            BY <1>1, <3>2 DEF Begun
          <5>2. Begun(r, s, j, e)
            BY <3>2, <5>1 DEF Begun
          <5> QED BY <1>4, <5>1, <5>2
        <4>3. \A d : Begun(r, s, i, d) => d = e
          BY <1>1, <3>2, BegunOnce
        <4> QED BY <2>2, <3>2, <4>1, <4>2, <4>3 DEF Rules!Due, Deserved
      <3>3. Into(r, s, i) => \E e : Begun(r, s, i, e)
        BY <1>1 DEF Raised, n
      <3> QED BY <3>1, <3>2, <3>3
    <2> QED BY <2>1, <2>2 DEF Surveyed
  <1>6. \A i \in 1..n : Rules!Alarm(r, i) \in alarms[k] <=> Rules!Due(k, r, i)
    BY <1>1, <1>5 DEF Raised, n
  <1>7. ASSUME NEW a \in alarms[k], a.rule = r PROVE a.step \in 1..n /\ a = Rules!Alarm(r, a.step)
    BY <1>1, <1>7 DEF Rules!Alarm
  <1>8. \A i \in 1..n : Rules!Alarm(r, i).rule = r /\ Rules!Alarm(r, i).step = i
    BY DEF Rules!Alarm
  <1>9. \A i \in {a.step : a \in {a \in alarms[k] : a.rule = r}} :
          i \in 1..n /\ Rules!Alarm(r, i) \in alarms[k]
    BY <1>7
  <1>10. \A i \in 1..n : Rules!Alarm(r, i) \in alarms[k]
            => i \in {a.step : a \in {a \in alarms[k] : a.rule = r}}
    BY <1>8
  <1> QED BY <1>1, <1>6, <1>9, <1>10

(* The alarms of a tripwire's rule are those of the strides over it. *)
LEMMA CrossingsReported ==
  ASSUME Surveyed, RulesInv
  PROVE  Rules!StridesReported
  <1> SUFFICES ASSUME NEW k \in Persons, NEW r \in DOMAIN RuleSet, RuleSet[r].type = "linecross",
                      RuleSet[r].direction = "lr"
               PROVE  {a.step : a \in {a \in alarms[k] : a.rule = r}}
                      = {i \in DOMAIN path[k] : Rules!Strides(k, r, i)}
    BY DEF Rules!StridesReported
  <1> DEFINE s == path[k]
             n == Len(s)
  <1>1. /\ s \in Path /\ Raised(r, alarms[k], s) /\ DOMAIN s = 1..n /\ n \in Nat
        /\ alarms[k] \subseteq [rule : DOMAIN RuleSet, step : 1..n]
    BY LenProperties DEF RulesInv, Kept, Path
  <1>2. \A i \in 1..n : Rules!Alarm(r, i) \in alarms[k] <=> Rules!Strides(k, r, i)
    BY <1>1 DEF Raised, Rules!Strides, Over
  <1>3. ASSUME NEW a \in alarms[k], a.rule = r PROVE a.step \in 1..n /\ a = Rules!Alarm(r, a.step)
    BY <1>1, <1>3 DEF Rules!Alarm
  <1>4. \A i \in 1..n : Rules!Alarm(r, i).rule = r /\ Rules!Alarm(r, i).step = i
    BY DEF Rules!Alarm
  <1> HIDE DEF n
  <1>5. \A i \in {a.step : a \in {a \in alarms[k] : a.rule = r}} :
          i \in 1..n /\ Rules!Alarm(r, i) \in alarms[k]
    BY <1>3
  <1>6. \A i \in 1..n : Rules!Alarm(r, i) \in alarms[k]
            => i \in {a.step : a \in {a \in alarms[k] : a.rule = r}}
    BY <1>4
  <1> QED BY <1>1, <1>2, <1>5, <1>6

-----------------------------------------------------------------------------
(* alert_policy. *)

(* Where the last stay of a track began. *)
Sightings == Seq([at : Nat, pts : Nat])
Stays(s, f) == /\ f \in DOMAIN s /\ \A j \in f..Len(s) : s[j].at = s[Len(s)].at
               /\ f = 1 \/ s[f - 1].at # s[Len(s)].at

Followed == [seen : BOOLEAN, at : Nat, last : Nat, alerted : Nat, since : Nat,
             stationary : BOOLEAN]
AlertTypes == /\ clock \in Seq(0..Wrap - 1) /\ frame \in Nat /\ lately \in [Things -> Sightings]
              /\ alertTracks \in [Things -> Followed]
(* Since step f the time stamps have gone forward. *)
Onward(s, f) == s[f].pts > 0 /\ \A i \in (f + 1)..Len(s) : s[i].pts > s[i - 1].pts
Timed(t) == t.since <= t.last /\ (t.stationary <=> t.last - t.since >= Stationary)
(* A track knows when its last stay began, and how long that was if the clock went forward. *)
Follows(t, s) ==
    IF s = << >> THEN t = Alert!NoTrack
    ELSE /\ t.seen /\ t.at = s[Len(s)].at /\ t.last = s[Len(s)].pts
         /\ \E f : /\ Stays(s, f)
                   /\ s[f].pts > 0 => t.since = s[f].pts
                   /\ Onward(s, f) => Timed(t)
AlertInv == AlertTypes /\ \A o \in Things : Follows(alertTracks[o], lately[o])

(* A sighting of a track prolongs its stay or begins one. *)
LEMMA Sighted ==
  ASSUME NEW s \in Sightings, NEW e \in [at : Nat, pts : Nat]
  PROVE  LET a == Append(s, e)
         IN /\ a \in Sightings /\ a # << >> /\ Len(a) = Len(s) + 1 /\ a[Len(a)] = e
            /\ \A f : Stays(s, f) /\ s[Len(s)].at = e.at =>
                   /\ Stays(a, f) /\ a[f] = s[f]
                   /\ Onward(a, f) => Onward(s, f) /\ s[Len(s)].pts < e.pts
            /\ s = << >> \/ s[Len(s)].at # e.at => Stays(a, Len(a))
  <1> DEFINE a == Append(s, e)
  <1>1. /\ Len(s) \in Nat /\ DOMAIN s = 1..Len(s) /\ a \in Sightings /\ Len(a) = Len(s) + 1
        /\ DOMAIN a = 1..(Len(s) + 1) /\ a[Len(s) + 1] = e
        /\ \A i \in 1..Len(s) : a[i] = s[i]
    BY AppendProperties, LenProperties DEF Sightings
  <1>2. a # << >> /\ (s = << >> <=> Len(s) = 0)
    <2>1. Len(s) = 0 => s = << >>
      BY EmptySeq DEF Sightings
    <2> QED BY <1>1, <2>1
  <1> HIDE DEF a
  <1>3. ASSUME NEW f, Stays(s, f), s[Len(s)].at = e.at PROVE Stays(a, f) /\ a[f] = s[f]
    <2>1. f \in 1..Len(s) /\ \A j \in f..Len(s) : j \in 1..Len(s) /\ s[j].at = e.at
      BY <1>1, <1>3 DEF Stays
    <2>2. \A j \in f..(Len(s) + 1) : j \in f..Len(s) \/ j = Len(s) + 1
      BY <1>1, <2>1
    <2>3. \A j \in f..(Len(s) + 1) : a[j].at = e.at
      BY <1>1, <2>1, <2>2
    <2>4. f = 1 \/ a[f - 1].at # e.at
      <3>1. f # 1 => f - 1 \in 1..Len(s)
        BY <1>1, <2>1
      <3> QED BY <1>1, <1>3, <3>1 DEF Stays
    <2> QED BY <1>1, <2>1, <2>3, <2>4 DEF Stays
  <1>5. ASSUME NEW f, Stays(s, f), Onward(a, f) PROVE Onward(s, f) /\ s[Len(s)].pts < e.pts
    <2>1. f \in 1..Len(s) /\ Len(s) + 1 \in (f + 1)..(Len(s) + 1) /\ (Len(s) + 1) - 1 = Len(s)
          /\ Len(s) \in 1..Len(s)
      BY <1>1, <1>5 DEF Stays
    <2>2. \A i \in (f + 1)..Len(s) : i \in 1..Len(s) /\ i - 1 \in 1..Len(s)
                                    /\ i \in (f + 1)..(Len(s) + 1)
      BY <1>1, <2>1
    <2>3. \A i \in (f + 1)..(Len(s) + 1) : a[i].pts > a[i - 1].pts
      BY <1>1, <1>5 DEF Onward
    <2>4. a[Len(s) + 1].pts > a[(Len(s) + 1) - 1].pts
      BY <2>1, <2>3
    <2>5. s[Len(s)].pts < e.pts
      BY <1>1, <2>1, <2>4
    <2>6. \A i \in (f + 1)..Len(s) : s[i].pts > s[i - 1].pts
      BY <1>1, <2>2, <2>3
    <2> QED BY <1>1, <1>5, <2>1, <2>5, <2>6 DEF Onward
  <1>4. ASSUME s = << >> \/ s[Len(s)].at # e.at PROVE Stays(a, Len(a))
    <2> DEFINE n == Len(s) + 1
    <2>1. \A j \in n..n : j = n
      BY <1>1
    <2>2. n = 1 \/ (n - 1 = Len(s) /\ Len(s) \in 1..Len(s))
      BY <1>1
    <2>3. n = 1 \/ a[n - 1].at # e.at
      BY <1>1, <1>2, <1>4, <2>2
    <2> HIDE DEF n
    <2>4. n \in DOMAIN a /\ Len(a) = n /\ a[n] = e
      BY <1>1 DEF n
    <2> QED BY <2>1, <2>3, <2>4 DEF Stays
  <1> QED BY <1>1, <1>2, <1>3, <1>4, <1>5 DEF a

(* Differences of 64-bit time stamps are differences. *)
LEMMA MinusIs ==
  ASSUME NEW a \in Nat, NEW b \in Nat, b <= a, a < Wrap, Wrap \in Nat
  PROVE  Alert!Minus(a, b) = a - b
  <1>1. a + Wrap - b = (a - b) + Wrap /\ a - b \in 0..Wrap - 1
    OBVIOUS
  <1>2. \A x \in 0..Wrap - 1 : (x + Wrap) % Wrap = x
    OBVIOUS
  <1> QED BY <1>1, <1>2 DEF Alert!Minus

(* The track of an object in the frame: a stay is prolonged, or begins. *)
LEMMA TrackUpdated ==
  ASSUME NEW t \in Followed, NEW place \in Nat, NEW tick \in 0..Wrap - 1, Wrap \in Nat,
         Stationary \in Nat \ {0}, Forget \in Nat, ~t.seen => ~t.stationary
  PROVE  LET u == Alert!Pruned(Alert!Updated(t, place, tick), tick)
         IN /\ u \in Followed /\ u.seen /\ u.at = place /\ u.last = tick
            /\ ~(t.seen /\ t.at = place) => u.since = tick /\ Timed(u)
            /\ t.seen /\ t.at = place /\ t.since > 0 =>
                 u.since = t.since /\ (Timed(t) /\ t.last < tick => Timed(u))
  <1> USE DEF Followed
  <1> DEFINE moved == t.at # place
             m == IF t.seen THEN Alert!Motion(t, moved, tick)
                  ELSE [t EXCEPT !.seen = TRUE, !.since = tick]
             still == t.stationary \/ Alert!Minus(tick, t.since) >= Stationary
  <1>0. tick \in Nat /\ tick < Wrap /\ Alert!Minus(tick, tick) \in Nat /\ still \in BOOLEAN
    BY DEF Alert!Minus
  <1>1. /\ m \in Followed /\ m.seen /\ m.alerted = t.alerted
        /\ ~t.seen \/ moved => m.since = tick /\ ~m.stationary
        /\ t.seen /\ ~moved /\ t.since > 0 => m.since = t.since /\ m.stationary = still
    <2>1. CASE ~t.seen
      <3>1. m = [t EXCEPT !.seen = TRUE, !.since = tick]
        BY <2>1
      <3> HIDE DEF m
      <3> QED BY <1>0, <2>1, <3>1
    <2>2. CASE t.seen /\ moved
      <3>1. m = [t EXCEPT !.since = tick, !.stationary = FALSE]
        BY <2>2 DEF Alert!Motion
      <3> HIDE DEF m
      <3> QED BY <1>0, <2>2, <3>1
    <2>3. CASE t.seen /\ ~moved
      <3> DEFINE since == IF t.since = 0 THEN tick ELSE t.since
                 rests == t.stationary \/ Alert!Minus(tick, since) >= Stationary
      <3>1. m = [t EXCEPT !.since = since, !.stationary = rests]
        <4>1. m = Alert!Motion(t, moved, tick) /\ ~moved
          BY <2>3
        <4> HIDE DEF m, moved
        <4> QED BY <4>1 DEF Alert!Motion
      <3>2. since \in Nat /\ rests \in BOOLEAN /\ (t.since > 0 => since = t.since)
        BY <1>0
      <3>3. t.since > 0 => rests = still
        BY <3>2
      <3> HIDE DEF since, rests, still, m
      <3>4. m \in Followed /\ m.seen /\ m.since = since /\ m.stationary = rests
            /\ m.alerted = t.alerted
        BY <2>3, <3>1, <3>2
      <3> QED BY <2>3, <3>2, <3>3, <3>4
    <2> QED BY <2>1, <2>2, <2>3
  <1> DEFINE al == IF Alert!Alerts(t, moved, tick) # "none" THEN tick ELSE m.alerted
             u == [m EXCEPT !.at = place, !.last = tick, !.alerted = al]
  <1>2. Alert!Updated(t, place, tick) = u
    BY DEF Alert!Updated
  <1>3. al \in Nat
    BY <1>0, <1>1
  <1> HIDE DEF m, al, still
  <1>4. /\ u \in Followed /\ u.seen = m.seen /\ u.since = m.since /\ u.at = place /\ u.last = tick
        /\ u.stationary = m.stationary
    BY <1>0, <1>1, <1>3
  <1> HIDE DEF u
  <1>5. Alert!Pruned(u, tick) = u
    BY <1>0, <1>4 DEF Alert!Pruned
  <1>6. ~(t.seen /\ t.at = place) => u.since = tick /\ Timed(u)
    BY <1>0, <1>1, <1>4 DEF Timed
  <1>7. ASSUME t.seen, t.at = place, t.since > 0
        PROVE  u.since = t.since /\ (Timed(t) /\ t.last < tick => Timed(u))
    <2>1. u.since = t.since /\ u.stationary = still
      BY <1>1, <1>4, <1>7
    <2>2. ASSUME Timed(t), t.last < tick PROVE Timed(u)
      <3>1. t.since <= tick /\ t.since \in Nat /\ t.last \in Nat
        BY <1>0, <2>2 DEF Timed
      <3>2. Alert!Minus(tick, t.since) = tick - t.since
        BY <1>0, <3>1, MinusIs
      <3>3. still <=> tick - t.since >= Stationary
        BY <1>0, <2>2, <3>1, <3>2 DEF Timed, still
      <3> QED BY <1>4, <2>1, <3>1, <3>3 DEF Timed
    <2> QED BY <2>1, <2>2
  <1> QED BY <1>1, <1>2, <1>4, <1>5, <1>6, <1>7

LEMMA AlertHolds ==
  ASSUME Wrap \in Nat, Stationary \in Nat \ {0}, Forget \in Nat, Clocks \subseteq Seq(0..Wrap - 1)
  PROVE  /\ Alert!Init \/ Alert!Off => AlertInv
         /\ AlertInv /\ [Alert!Next]_Alert!alertVars => AlertInv'
         /\ AlertInv => Alert!StillByTheClock
  <1>0. /\ Alert!NoTrack \in Followed /\ << >> \in Sightings
        /\ ~Alert!NoTrack.seen /\ ~Alert!NoTrack.stationary
    BY DEF Alert!NoTrack, Sightings, Followed
  <1>1. ASSUME Alert!Init \/ Alert!Off PROVE AlertInv
    <2>1. /\ frame = 0 /\ alertTracks = [o \in Things |-> Alert!NoTrack]
          /\ lately = [o \in Things |-> << >>]
      BY <1>1 DEF Alert!Init, Alert!Off, Alert!Rest
    <2>2. clock \in Seq(0..Wrap - 1)
      BY <1>1, EmptySeq DEF Alert!Init, Alert!Off
    <2>3. AlertTypes
      BY <1>0, <2>1, <2>2 DEF AlertTypes
    <2> QED BY <2>1, <2>3 DEF AlertInv, Follows
  <1>2. ASSUME AlertInv, Alert!Next PROVE AlertInv'
    <2>1. PICK places \in [Things -> 0..2] : Alert!HandleEvent(places) /\ frame < Len(clock)
      BY <1>2 DEF Alert!Next
    <2> DEFINE tick == clock[frame + 1]
    <2>2. frame \in Nat /\ tick \in 0..Wrap - 1 /\ tick \in Nat
      <3>1. clock \in Seq(0..Wrap - 1) /\ frame \in Nat
        BY <1>2 DEF AlertInv, AlertTypes
      <3>2. frame + 1 \in 1..Len(clock)
        BY <2>1, <3>1, LenProperties
      <3>3. tick \in 0..Wrap - 1
        BY <3>1, <3>2, ElementOfSeq
      <3> QED BY <3>1, <3>3
    <2>3. /\ frame' = frame + 1 /\ clock' = clock
          /\ \A o \in Things :
               alertTracks'[o] = Alert!Pruned(IF places[o] # 0
                   THEN Alert!Updated(alertTracks[o], places[o], tick) ELSE alertTracks[o], tick)
          /\ \A o \in Things :
               lately'[o] = IF places[o] # 0 THEN Append(lately[o], [at |-> places[o], pts |-> tick])
                            ELSE IF Alert!Pruned(alertTracks[o], tick).seen THEN lately[o] ELSE << >>
          /\ alertTracks' = [o \in Things |-> alertTracks'[o]]
          /\ lately' = [o \in Things |-> lately'[o]]
      BY <2>1 DEF Alert!HandleEvent
    <2> HIDE DEF tick
    <2>5. ASSUME NEW o \in Things
          PROVE  /\ alertTracks'[o] \in Followed /\ lately'[o] \in Sightings
                 /\ Follows(alertTracks'[o], lately'[o])
      <3> DEFINE t == alertTracks[o]
                 s == lately[o]
                 p == places[o]
      <3>1. t \in Followed /\ s \in Sightings /\ Follows(t, s) /\ p \in Nat
        BY <1>2 DEF AlertInv, AlertTypes
      <3>2. CASE p # 0
        <4> DEFINE e == [at |-> p, pts |-> tick]
                   a == Append(s, e)
                   u == Alert!Pruned(Alert!Updated(t, p, tick), tick)
        <4>1. alertTracks'[o] = u /\ lately'[o] = a
          BY <2>3, <3>2
        <4>2. e \in [at : Nat, pts : Nat] /\ e.at = p /\ e.pts = tick
          BY <2>2, <3>1
        <4> HIDE DEF e, t, s, p
        <4>3. /\ a \in Sightings /\ a # << >> /\ Len(a) = Len(s) + 1 /\ a[Len(a)] = e
              /\ \A f : Stays(s, f) /\ s[Len(s)].at = e.at =>
                     /\ Stays(a, f) /\ a[f] = s[f]
                     /\ Onward(a, f) => Onward(s, f) /\ s[Len(s)].pts < e.pts
              /\ s = << >> \/ s[Len(s)].at # e.at => Stays(a, Len(a))
          BY <3>1, <4>2, Sighted
        <4>4. /\ ~t.seen => ~t.stationary
              /\ s = << >> => ~t.seen
              /\ s # << >> => t.seen /\ t.at = s[Len(s)].at /\ t.last = s[Len(s)].pts
          BY <1>0, <3>1 DEF Follows
        <4> HIDE DEF a, u
        <4>5. /\ u \in Followed /\ u.seen /\ u.at = p /\ u.last = tick
              /\ ~(t.seen /\ t.at = p) => u.since = tick /\ Timed(u)
              /\ t.seen /\ t.at = p /\ t.since > 0 =>
                   u.since = t.since /\ (Timed(t) /\ t.last < tick => Timed(u))
          BY <2>2, <3>1, <4>4, TrackUpdated DEF u
        <4>7. \E f : /\ Stays(a, f)
                     /\ a[f].pts > 0 => u.since = a[f].pts
                     /\ Onward(a, f) => Timed(u)
          <5>1. CASE s # << >> /\ s[Len(s)].at = p
            <6>1. PICK f : /\ Stays(s, f)
                           /\ s[f].pts > 0 => t.since = s[f].pts
                           /\ Onward(s, f) => Timed(t)
              BY <3>1, <5>1 DEF Follows
            <6>2. Stays(a, f) /\ a[f] = s[f]
              BY <4>2, <4>3, <5>1, <6>1
            <6>3. a[f].pts > 0 => u.since = a[f].pts
              BY <4>4, <4>5, <5>1, <6>1, <6>2
            <6>4. ASSUME Onward(a, f) PROVE Timed(u)
              <7>1. Onward(s, f) /\ t.last < tick
                BY <4>2, <4>3, <4>4, <5>1, <6>1, <6>4
              <7>2. t.since > 0 /\ Timed(t)
                BY <6>1, <7>1 DEF Onward
              <7> QED BY <4>4, <4>5, <5>1, <7>1, <7>2
            <6> QED BY <6>2, <6>3, <6>4
          <5>2. CASE s = << >> \/ s[Len(s)].at # p
            <6>1. ~(t.seen /\ t.at = p)
              BY <4>4, <5>2
            <6>2. Stays(a, Len(a)) /\ a[Len(a)].pts = tick
              BY <4>2, <4>3, <5>2
            <6> QED BY <4>5, <6>1, <6>2
          <5> QED BY <5>1, <5>2
        <4>8. Follows(u, a)
          BY <4>2, <4>3, <4>5, <4>7 DEF Follows
        <4> QED BY <4>1, <4>3, <4>5, <4>8
      <3>3. CASE p = 0
        <4>1. /\ alertTracks'[o] = Alert!Pruned(t, tick)
              /\ lately'[o] = IF Alert!Pruned(t, tick).seen THEN s ELSE << >>
          BY <2>3, <3>3
        <4>2. CASE Alert!Pruned(t, tick) = Alert!NoTrack
          BY <1>0, <4>1, <4>2 DEF Follows
        <4>3. CASE Alert!Pruned(t, tick) # Alert!NoTrack
          <5>1. Alert!Pruned(t, tick) = t /\ t # Alert!NoTrack
            BY <4>3 DEF Alert!Pruned
          <5>2. t.seen /\ s # << >>
            BY <3>1, <5>1 DEF Follows
          <5>3. alertTracks'[o] = t /\ lately'[o] = s
            BY <4>1, <5>1, <5>2
          <5> QED BY <3>1, <5>3
        <4> QED BY <4>2, <4>3
      <3> QED BY <3>2, <3>3
    <2>6. AlertTypes'
      BY <1>2, <2>2, <2>3, <2>5 DEF AlertInv, AlertTypes
    <2> QED BY <2>5, <2>6 DEF AlertInv
  <1>3. AlertInv /\ UNCHANGED Alert!alertVars => AlertInv'
    BY DEF AlertInv, AlertTypes, Follows, Stays, Onward, Timed, Alert!alertVars
  <1>4. ASSUME AlertInv, NEW o \in Things, alertTracks[o].seen, lately[o] # << >>,
               Alert!Forward(lately[o])
        PROVE  alertTracks[o].stationary <=> Alert!StillFor(o) >= Stationary
    <2> DEFINE t == alertTracks[o]
               s == lately[o]
               n == Len(s)
               from == Alert!Since(s)
    <2>0. t \in Followed /\ s \in Sightings /\ Follows(t, s)
      BY <1>4 DEF AlertInv, AlertTypes
    <2>1. PICK f : /\ Stays(s, f)
                   /\ s[f].pts > 0 => t.since = s[f].pts
                   /\ Onward(s, f) => Timed(t)
      BY <1>4, <2>0 DEF Follows
    <2>a. DOMAIN s = 1..n /\ n \in Nat
      BY <2>0, LenProperties DEF Sightings
    <2>b. Alert!Forward(s) /\ s # << >> /\ t.last = s[n].pts
      BY <1>4, <2>0 DEF Follows
    <2>c. Alert!StillFor(o) = s[n].pts - s[from].pts
      BY DEF Alert!StillFor
    <2> HIDE DEF s, t
    <2>2. Stays(s, from)
      BY <2>1 DEF Stays, Alert!Since
    <2> HIDE DEF from
    <2>3. ASSUME NEW x, NEW y, Stays(s, x), Stays(s, y), x < y PROVE FALSE
      <3>1. x \in 1..n /\ y \in 1..n
        BY <2>3, <2>a DEF Stays
      <3>2. y - 1 \in x..n /\ y # 1
        BY <2>3, <2>a, <3>1
      <3> QED BY <2>3, <3>2 DEF Stays
    <2>4. f \in Nat /\ from \in Nat
      BY <2>1, <2>2, <2>a DEF Stays
    <2>5. from = f
      <3>1. from < f \/ f < from \/ from = f
        BY <2>4
      <3> QED BY <2>1, <2>2, <2>3, <3>1
    <2>6. Onward(s, f)
      BY <2>5, <2>b DEF Alert!Forward, Onward, from
    <2>7. s[n].pts - s[f].pts = t.last - t.since
      BY <2>1, <2>6, <2>b DEF Onward
    <2>8. t.stationary <=> t.last - t.since >= Stationary
      BY <2>1, <2>6 DEF Timed
    <2> QED BY <2>5, <2>7, <2>8, <2>c DEF t
  <1> QED BY <1>1, <1>2, <1>3, <1>4 DEF Alert!StillByTheClock

-----------------------------------------------------------------------------
(* llm_event_review. *)

(* What lastReview forgets is older than any debounce. *)
Age == 0..Prune + 1 \cup {Review!Never}
ReviewTypes == /\ lastReview \in [Tracks -> Age] /\ asked \in [Tracks -> Age]
               /\ jobs \in Seq(Tracks)
Remembered == \A t \in Tracks : asked[t] < Debounce => lastReview[t] = asked[t]
ReviewInv == ReviewTypes /\ Remembered

LEMMA ReviewHolds ==
  ASSUME Debounce \in Nat, Prune \in Nat, Debounce <= Prune, Prune + 1 < Review!Never
  PROVE  /\ Review!Init \/ Review!Off => ReviewInv
         /\ ReviewInv /\ [Review!Next]_Review!reviewVars =>
               /\ ReviewInv'
               /\ \A t \in Tracks : Len(jobs') > Len(jobs) /\ jobs'[Len(jobs')] = t
                      => asked[t] >= Debounce
  <1> USE DEF Review!Never
  <1>1. Review!Init \/ Review!Off => ReviewInv
    <2> SUFFICES ASSUME Review!Init \/ Review!Off PROVE ReviewInv
      OBVIOUS
    <2>1. /\ lastReview = [t \in Tracks |-> Review!Never]
          /\ asked = [t \in Tracks |-> Review!Never] /\ jobs = << >>
      BY DEF Review!Init, Review!Off, Review!Rest
    <2>2. /\ Review!Never \in Age /\ ~(Review!Never < Debounce)
      BY DEF Age
    <2>3. ReviewTypes
      BY <2>1, <2>2 DEF ReviewTypes
    <2> QED BY <2>1, <2>2, <2>3 DEF ReviewInv, Remembered
  <1>2. ReviewInv /\ [Review!Next]_Review!reviewVars =>
          /\ ReviewInv'
          /\ \A t \in Tracks : Len(jobs') > Len(jobs) /\ jobs'[Len(jobs')] = t
                 => asked[t] >= Debounce
    <2> SUFFICES ASSUME ReviewInv, [Review!Next]_Review!reviewVars
                 PROVE  /\ ReviewInv'
                        /\ \A t \in Tracks : Len(jobs') > Len(jobs) /\ jobs'[Len(jobs')] = t
                               => asked[t] >= Debounce
      OBVIOUS
    <2> DEFINE Waited == \A t \in Tracks : Len(jobs') > Len(jobs) /\ jobs'[Len(jobs')] = t
                               => asked[t] >= Debounce
    <2>1. CASE Review!Tick
      <3>1. /\ lastReview' = [t \in Tracks |-> Review!Older(lastReview[t], Prune + 1)]
            /\ asked' = [t \in Tracks |-> Review!Older(asked[t], Debounce)]
            /\ jobs' = jobs
        BY <2>1 DEF Review!Tick
      <3>2. ReviewTypes'
        BY <3>1 DEF Review!Older, ReviewInv, ReviewTypes, Age
      <3>3. Remembered'
        BY <3>1 DEF Review!Older, ReviewInv, ReviewTypes, Remembered, Age
      <3> QED BY <3>1, <3>2, <3>3 DEF ReviewInv, ReviewTypes
    <2>2. ASSUME NEW t \in Tracks, Review!HandleEvent(t)
          PROVE  ReviewInv' /\ Waited
      <3>1. CASE UNCHANGED <<lastReview, asked, jobs>>
        BY <3>1 DEF ReviewInv, ReviewTypes, Remembered
      <3>2. CASE /\ ~Review!Debounced(t) /\ lastReview' = Review!Noted(t)
                 /\ asked' = [asked EXCEPT ![t] = 0] /\ jobs' = Append(jobs, t)
        <4>1. jobs' \in Seq(Tracks) /\ Len(jobs') = Len(jobs) + 1 /\ jobs'[Len(jobs')] = t
          BY <3>2, AppendProperties DEF ReviewInv, ReviewTypes
        <4>2. ReviewTypes'
          BY <3>2, <4>1 DEF Review!Noted, ReviewInv, ReviewTypes, Age
        <4>3. Remembered'
          BY <3>2 DEF Review!Noted, ReviewInv, ReviewTypes, Remembered, Age
        <4>4. asked[t] >= Debounce
          BY <3>2 DEF Review!Debounced, ReviewInv, ReviewTypes, Remembered, Age
        <4> QED BY <4>1, <4>2, <4>3, <4>4 DEF ReviewInv
      <3> QED BY <2>2, <3>1, <3>2 DEF Review!HandleEvent
    <2>3. ASSUME UNCHANGED <<lastReview, asked>>,
                 UNCHANGED jobs \/ (jobs # << >> /\ jobs' = Tail(jobs))
          PROVE  ReviewInv' /\ Waited
      <3>1. jobs' \in Seq(Tracks) /\ Len(jobs') <= Len(jobs)
        BY <2>3, HeadTailProperties DEF ReviewInv, ReviewTypes
      <3>2. ReviewInv'
        BY <2>3, <3>1 DEF ReviewInv, ReviewTypes, Remembered
      <3>3. Len(jobs') \in Nat /\ Len(jobs) \in Nat
        BY <3>1 DEF ReviewInv, ReviewTypes
      <3> QED BY <3>1, <3>2, <3>3
    <2>4. CASE UNCHANGED Review!reviewVars
      BY <2>3, <2>4 DEF Review!reviewVars
    <2>5. CASE Review!Worker
      BY <2>3, <2>5 DEF Review!Worker, Review!WorkerTop, Review!WorkerLocks, Review!WorkerBlocks,
           Review!WorkerWakes, Review!ProcessReview, Review!CollectNarrateJobs,
           Review!ProcessNarrate, Review!WorkerOnly, Review!Proceed
    <2>6. CASE Review!OnFrame \/ Review!StopFlags \/ Review!Stop
      BY <2>3, <2>6 DEF Review!OnFrame, Review!StopFlags, Review!Stop, Review!StopNotifies,
           Review!StopJoins
    <2> QED BY <2>1, <2>2, <2>4, <2>5, <2>6 DEF Review!Next
  <1> QED BY <1>1, <1>2

(* llm_event_review: no track is reviewed again within the debounce                        *)
(* (llm_event_review.cpp:865), however many tracks there are and whatever is forgotten of  *)
(* them; if the debounce is no longer than the 30 s after which tracks are forgotten.      *)
THEOREM ReviewsSpaced ==
  ASSUME Debounce \in Nat, Prune \in Nat, Debounce <= Prune, Prune + 1 < Review!Never
  PROVE  Review!Init /\ [][Review!Next]_Review!reviewVars => Review!DebounceHolds
  BY ReviewHolds, PTL DEF Review!DebounceHolds

-----------------------------------------------------------------------------
(* review_export. *)

LEMMA ExportCardinality == \A S : Export!Cardinality(S) = Cardinality(S)
  BY DEF Export!Cardinality, Cardinality, Export!IsFiniteSet, IsFiniteSet

Tubes == [Clipped -> Seq(Int)]
Counted(tubes) == {p \in Clipped \X (1..MaxFrames) : p[2] <= Len(tubes[p[1]])}
Apart(tubes) == \A o \in Clipped : \A i \in 2..Len(tubes[o]) :
                   tubes[o][i] - tubes[o][i - 1] >= MinGap
Within(tubes, from) == \A o \in Clipped : \A i \in DOMAIN tubes[o] : tubes[o][i] >= from - 1

(* The buffer counts the samples; they are of the last recording to open, hence of the *)
(* time of every clip that is being recorded.                                          *)
ExportTypes ==
    /\ pts \in Int
    /\ collecting \in [on : BOOLEAN, token : {0} \cup Stores, first : Int, tubes : Tubes,
                       buffered : Int]
    /\ recording \in [Stores -> Int]
Buffered == /\ Cardinality(Counted(collecting.tubes)) <= collecting.buffered
            /\ collecting.buffered <= MaxSamples /\ Apart(collecting.tubes)
OfTheClip == \A s \in Stores : recording[s] # Export!Idle =>
                recording[s] <= pts /\ Within(collecting.tubes, recording[s])
Written == assets # Export!None =>
    /\ Apart(assets.tubes)
    /\ Within(assets.tubes, assets.from) /\ Cardinality(Counted(assets.tubes)) <= MaxSamples
ExportInv == ExportTypes /\ Buffered /\ OfTheClip /\ Written

(* A batch adds one sample to each tube it adds to. *)
LEMMA CountedGrows ==
  ASSUME IsFiniteSet(Clipped), MaxFrames \in Nat, NEW t \in Tubes, NEW taken \in SUBSET Clipped,
         NEW p \in Int
  PROVE  LET u == [o \in Clipped |-> IF o \in taken THEN Append(t[o], p) ELSE t[o]]
         IN Cardinality(Counted(u)) <= Cardinality(Counted(t)) + Cardinality(taken)
  <1> DEFINE u == [o \in Clipped |-> IF o \in taken THEN Append(t[o], p) ELSE t[o]]
             new == {<<o, Len(t[o]) + 1>> : o \in taken}
             f == [o \in taken |-> <<o, Len(t[o]) + 1>>]
  <1>1. IsFiniteSet(Clipped \X (1..MaxFrames))
    <2>1. IsFiniteSet(1..MaxFrames)
      BY FS_Interval
    <2> QED BY <2>1, FS_Product
  <1>2. /\ IsFiniteSet(Counted(t)) /\ IsFiniteSet(Counted(u)) /\ IsFiniteSet(taken)
    <2>1. Counted(t) \subseteq Clipped \X (1..MaxFrames)
          /\ Counted(u) \subseteq Clipped \X (1..MaxFrames)
      BY DEF Counted
    <2> HIDE DEF u
    <2> QED BY <1>1, <2>1, FS_Subset
  <1>3. IsFiniteSet(new) /\ Cardinality(new) <= Cardinality(taken)
    <2>1. f \in Surjection(taken, new)
      <3>1. f \in [taken -> new]
        OBVIOUS
      <3>2. \A y \in new : \E x \in taken : f[x] = y
        OBVIOUS
      <3> HIDE DEF f, new
      <3> QED BY <3>1, <3>2 DEF Surjection
    <2> HIDE DEF f, new
    <2> QED BY <1>2, <2>1, FS_Surjection
  <1>4. Counted(u) \subseteq Counted(t) \cup new
    <2> SUFFICES ASSUME NEW q \in Counted(u), q \notin Counted(t) PROVE q \in new
      OBVIOUS
    <2>1. PICK o \in Clipped, n \in 1..MaxFrames : q = <<o, n>>
      BY DEF Counted
    <2>2. n <= Len(u[o]) /\ ~(n <= Len(t[o]))
      <3> HIDE DEF u
      <3> QED BY <2>1 DEF Counted
    <2>3. t[o] \in Seq(Int) /\ Len(t[o]) \in Nat /\ Len(Append(t[o], p)) = Len(t[o]) + 1
      BY AppendProperties, LenProperties DEF Tubes
    <2>4. o \in taken /\ n = Len(t[o]) + 1
      BY <2>1, <2>2, <2>3
    <2> QED BY <2>1, <2>4
  <1>5. Cardinality(Counted(t) \cup new) <= Cardinality(Counted(t)) + Cardinality(new)
        /\ IsFiniteSet(Counted(t) \cup new)
    <2> DEFINE a == Counted(t)
    <2> HIDE DEF a, new
    <2>1. IsFiniteSet(a) /\ IsFiniteSet(new)
      BY <1>2, <1>3 DEF a
    <2>2. /\ IsFiniteSet(a \cup new) /\ IsFiniteSet(a \cap new)
          /\ Cardinality(a \cup new) = Cardinality(a) + Cardinality(new) - Cardinality(a \cap new)
      BY <2>1, FS_Union, FS_Intersection
    <2>3. Cardinality(a) \in Nat /\ Cardinality(new) \in Nat /\ Cardinality(a \cap new) \in Nat
      BY <2>1, <2>2, FS_CardinalityType
    <2> QED BY <2>2, <2>3 DEF a
  <1> HIDE DEF u, new
  <1>6. Cardinality(Counted(u)) <= Cardinality(Counted(t) \cup new)
    BY <1>4, <1>5, FS_Subset
  <1>7. /\ Cardinality(Counted(u)) \in Nat /\ Cardinality(Counted(t)) \in Nat
        /\ Cardinality(new) \in Nat /\ Cardinality(taken) \in Nat
        /\ Cardinality(Counted(t) \cup new) \in Nat
    BY <1>2, <1>3, <1>5, FS_CardinalityType
  <1> QED BY <1>3, <1>5, <1>6, <1>7 DEF u

LEMMA ExportHolds ==
  ASSUME IsFiniteSet(Clipped), MaxFrames \in Nat, MaxSamples \in Nat, MinGap \in Int
  PROVE  /\ Export!Init => ExportInv
         /\ ExportInv /\ [Export!Next]_Export!exportVars => ExportInv'
         /\ ExportInv => Export!AssetsOfTheClip
  <1> DEFINE empty == [o \in Clipped |-> << >>]
  <1>0. /\ empty \in Tubes /\ Apart(empty) /\ \A from : Within(empty, from)
        /\ Cardinality(Counted(empty)) = 0
    <2>1. empty \in Tubes /\ \A o \in Clipped : Len(empty[o]) = 0 /\ DOMAIN empty[o] = {}
      BY EmptySeq DEF Tubes
    <2>2. Counted(empty) = {}
      <3>1. \A q \in Clipped \X (1..MaxFrames) : q[1] \in Clipped /\ q[2] \in 1..MaxFrames
        OBVIOUS
      <3> HIDE DEF empty
      <3> QED BY <2>1, <3>1 DEF Counted
    <2> HIDE DEF empty
    <2>3. Cardinality(Counted(empty)) = 0
      BY <2>2, FS_EmptySet
    <2> QED BY <2>1, <2>3 DEF Apart, Within
  <1> HIDE DEF empty
  <1>1. ASSUME Export!Init PROVE ExportInv
    <2>1. collecting = [on |-> FALSE, token |-> 0, first |-> -1, tubes |-> empty, buffered |-> 0]
      BY <1>1 DEF Export!Init, Export!Nothing, Export!Idle, empty
    <2> QED BY <1>0, <1>1, <2>1 DEF Export!Init, Export!Idle, ExportInv, ExportTypes, Buffered,
                                    OfTheClip, Written
  <1>2. ASSUME ExportInv, [Export!Next]_Export!exportVars PROVE ExportInv'
    <2> USE <1>2 DEF ExportInv
    <2>1. CASE Export!OnFrame
      <3>1. /\ pts' = pts + 1 /\ UNCHANGED <<recording, assets>>
            /\ collecting' = collecting \/ collecting' = [collecting EXCEPT !.first = pts + 1]
        BY <2>1 DEF Export!OnFrame
      <3>2. /\ ExportTypes' /\ collecting'.on = collecting.on
            /\ collecting'.token = collecting.token /\ collecting'.tubes = collecting.tubes
            /\ collecting'.buffered = collecting.buffered
        BY <3>1 DEF ExportTypes
      <3>3. Buffered'
        BY <3>2 DEF Buffered
      <3>4. OfTheClip'
        <4>1. \A s \in Stores : recording[s] \in Int /\ pts \in Int
          BY DEF ExportTypes
        <4> QED BY <3>1, <3>2, <4>1 DEF OfTheClip
      <3> QED BY <3>1, <3>2, <3>3, <3>4 DEF Written
    <2>2. ASSUME NEW p \in (pts - 1)..pts, NEW seen \in SUBSET Clipped,
                 Export!OnTrackedDetection(p, seen)
          PROVE  ExportInv'
      <3>1. PICK taken \in SUBSET {o \in seen : Export!Due(o, p)} :
              /\ Export!Cardinality(taken) <= Export!Room(collecting)
              /\ collecting' = Export!Sampled(collecting, taken, p)
        BY <2>2 DEF Export!OnTrackedDetection
      <3> DEFINE t == collecting.tubes
                 u == [o \in Clipped |-> IF o \in taken THEN Append(t[o], p) ELSE t[o]]
      <3>2. /\ taken \in SUBSET Clipped /\ p \in Int /\ p >= pts - 1 /\ t \in Tubes
            /\ pts \in Int /\ collecting.buffered \in Int
            /\ Cardinality(taken) + collecting.buffered <= MaxSamples
            /\ IsFiniteSet(taken) /\ Cardinality(taken) \in Nat
        <4>1. /\ taken \in SUBSET Clipped /\ p \in Int /\ p >= pts - 1 /\ t \in Tubes
              /\ pts \in Int /\ collecting.buffered \in Int
          BY DEF ExportTypes
        <4>2. IsFiniteSet(taken)
          BY <4>1, FS_Subset
        <4>3. Cardinality(taken) \in Nat
          BY <4>2, FS_CardinalityType
        <4>4. Cardinality(taken) <= MaxSamples - collecting.buffered
          BY <3>1, ExportCardinality DEF Export!Room
        <4> QED BY <4>1, <4>2, <4>3, <4>4
      <3>3. /\ UNCHANGED <<pts, recording, assets>>
            /\ collecting' = [collecting EXCEPT !.tubes = u, !.buffered = @ + Cardinality(taken)]
        BY <2>2, <3>1, ExportCardinality DEF Export!OnTrackedDetection, Export!Sampled, ExportTypes
      <3>4. u \in Tubes
        BY <3>2, AppendProperties DEF Tubes
      <3>5. Cardinality(Counted(u)) <= Cardinality(Counted(t)) + Cardinality(taken)
        <4> HIDE DEF t
        <4> QED BY <3>2, CountedGrows
      <3>6. ASSUME NEW o \in Clipped
            PROVE  /\ Len(t[o]) \in Nat /\ DOMAIN t[o] = 1..Len(t[o])
                   /\ \A i \in DOMAIN t[o] : t[o][i] \in Int
                   /\ \/ u[o] = t[o]
                      \/ /\ Len(u[o]) = Len(t[o]) + 1 /\ DOMAIN u[o] = 1..(Len(t[o]) + 1)
                         /\ u[o][Len(t[o]) + 1] = p
                         /\ \A i \in DOMAIN t[o] : u[o][i] = t[o][i]
                         /\ Len(t[o]) > 0 => p - t[o][Len(t[o])] >= MinGap
        <4>1. t[o] \in Seq(Int)
          BY <3>2 DEF Tubes
        <4>2. /\ Len(t[o]) \in Nat /\ DOMAIN t[o] = 1..Len(t[o])
              /\ \A i \in DOMAIN t[o] : t[o][i] \in Int
          BY <4>1, LenProperties, ElementOfSeq
        <4>3. CASE o \in taken
          <5>1. u[o] = Append(t[o], p) /\ Export!Due(o, p)
            BY <4>3
          <5>2. t[o] = << >> \/ p - t[o][Len(t[o])] >= MinGap
            BY <5>1 DEF Export!Due
          <5>3. Len(t[o]) > 0 => t[o] # << >>
            BY <4>1, EmptySeq
          <5> HIDE DEF t, u
          <5> QED BY <3>2, <4>1, <4>2, <5>1, <5>2, <5>3, AppendProperties, LenProperties
        <4>4. CASE o \notin taken
          BY <4>2, <4>4
        <4> QED BY <4>3, <4>4
      <3> HIDE DEF u
      <3>7. Apart(u)
        <4> SUFFICES ASSUME NEW o \in Clipped, NEW i \in 2..Len(u[o])
                     PROVE  u[o][i] - u[o][i - 1] >= MinGap
          BY DEF Apart
        <4>1. \A j \in 2..Len(t[o]) : t[o][j] - t[o][j - 1] >= MinGap
          BY DEF Buffered, Apart
        <4> HIDE DEF t
        <4>2. CASE u[o] = t[o]
          BY <4>1, <4>2
        <4>3. CASE u[o] # t[o] /\ i = Len(t[o]) + 1
          <5>1. i - 1 \in DOMAIN t[o] /\ i - 1 = Len(t[o]) /\ Len(t[o]) > 0
            BY <3>6, <4>3
          <5> QED BY <3>6, <4>3, <5>1
        <4>4. CASE u[o] # t[o] /\ i # Len(t[o]) + 1
          <5>1. i \in 2..Len(t[o]) /\ i \in DOMAIN t[o] /\ i - 1 \in DOMAIN t[o]
            BY <3>6, <4>4
          <5> QED BY <3>6, <4>1, <4>4, <5>1
        <4> QED BY <4>2, <4>3, <4>4
      <3>8. ASSUME NEW s \in Stores, recording[s] # Export!Idle PROVE Within(u, recording[s])
        <4>1. recording[s] <= pts /\ recording[s] \in Int /\ Within(t, recording[s])
          BY <3>8 DEF OfTheClip, ExportTypes
        <4>2. p >= recording[s] - 1
          BY <3>2, <4>1
        <4> HIDE DEF t
        <4> SUFFICES ASSUME NEW o \in Clipped, NEW i \in DOMAIN u[o] PROVE u[o][i] >= recording[s] - 1
          BY DEF Within
        <4>3. CASE u[o] = t[o]
          BY <4>1, <4>3 DEF Within
        <4>4. CASE u[o] # t[o]
          <5>1. i = Len(t[o]) + 1 \/ i \in DOMAIN t[o]
            BY <3>6, <4>4
          <5> QED BY <3>6, <4>1, <4>2, <4>4, <5>1 DEF Within
        <4> QED BY <4>3, <4>4
      <3>9. /\ collecting'.on = collecting.on /\ collecting'.token = collecting.token
            /\ collecting'.tubes = u /\ ExportTypes'
            /\ collecting'.buffered = collecting.buffered + Cardinality(taken)
        <4> DEFINE n == collecting.buffered + Cardinality(taken)
        <4>1. n \in Int
          BY <3>2
        <4>2. collecting' = [collecting EXCEPT !.tubes = u, !.buffered = n]
          BY <3>3 DEF ExportTypes
        <4> HIDE DEF n, t
        <4>3. /\ collecting'.on = collecting.on /\ collecting'.token = collecting.token
              /\ collecting'.tubes = u /\ collecting'.buffered = n
              /\ collecting' \in [on : BOOLEAN, token : {0} \cup Stores, first : Int,
                                  tubes : Tubes, buffered : Int]
          BY <3>4, <4>1, <4>2 DEF ExportTypes
        <4>4. ExportTypes'
          BY <3>3, <4>3 DEF ExportTypes
        <4> QED BY <4>3, <4>4 DEF n
      <3>10. Buffered'
        <4>1. Cardinality(Counted(t)) \in Int /\ Cardinality(Counted(u)) \in Int
          <5>1. \A v : IsFiniteSet(Counted(v))
            <6>1. IsFiniteSet(1..MaxFrames)
              BY FS_Interval
            <6>2. \A v : Counted(v) \subseteq Clipped \X (1..MaxFrames)
              BY DEF Counted
            <6> QED BY <6>1, <6>2, FS_Product, FS_Subset
          <5>2. \A v : Cardinality(Counted(v)) \in Nat
            BY <5>1, FS_CardinalityType
          <5> QED BY <5>2
        <4>2. Cardinality(Counted(t)) <= collecting.buffered
          BY DEF Buffered
        <4> HIDE DEF t
        <4> QED BY <3>2, <3>5, <3>7, <3>9, <4>1, <4>2 DEF Buffered
      <3>11. OfTheClip'
        BY <3>3, <3>8, <3>9 DEF OfTheClip
      <3> QED BY <3>3, <3>9, <3>10, <3>11 DEF Written
    <2>3. ASSUME NEW s \in Stores, Export!RecordingOpening(s) PROVE ExportInv'
      <3>1. /\ collecting' = [on |-> TRUE, token |-> s, first |-> -1, tubes |-> empty,
                              buffered |-> 0]
            /\ UNCHANGED <<pts, assets>>
        BY <2>3 DEF Export!RecordingOpening, Export!Collection, Export!Nothing, Export!Idle, empty
      <3>2. \E n \in {pts, -1} : recording' = [recording EXCEPT ![s] = n]
        BY <2>3 DEF Export!RecordingOpening, Export!Idle
      <3>3. ExportTypes'
        BY <1>0, <3>1, <3>2 DEF ExportTypes
      <3>4. Buffered'
        BY <1>0, <3>1 DEF Buffered
      <3>5. OfTheClip'
        <4>1. /\ recording'[s] \in {pts, -1} /\ pts \in Int
              /\ \A r \in Stores : r # s => recording'[r] = recording[r]
          BY <3>2 DEF ExportTypes
        <4>2. \A from : Within(collecting'.tubes, from)
          BY <1>0, <3>1
        <4> QED BY <3>1, <4>1, <4>2 DEF OfTheClip, Export!Idle
      <3> QED BY <3>1, <3>3, <3>4, <3>5 DEF Written
    <2>4. ASSUME NEW s \in Stores, Export!EventClip(s) PROVE ExportInv'
      <3>0. /\ recording' = [recording EXCEPT ![s] = -1] /\ UNCHANGED pts
            /\ recording[s] # Export!Idle
            /\ collecting' = IF collecting.on THEN Export!Nothing ELSE collecting
        BY <2>4 DEF Export!EventClip, Export!Idle
      <3>1. Within(collecting.tubes, recording[s])
        BY <3>0 DEF OfTheClip
      <3>2. \/ collecting' = collecting
            \/ collecting' = [on |-> FALSE, token |-> 0, first |-> -1, tubes |-> empty,
                              buffered |-> 0]
        BY <3>0 DEF Export!Nothing, Export!Idle, empty
      <3>3. ExportTypes'
        <4>1. collecting' \in [on : BOOLEAN, token : {0} \cup Stores, first : Int,
                               tubes : Tubes, buffered : Int]
          <5>1. CASE collecting' = collecting
            BY <5>1 DEF ExportTypes
          <5>2. CASE collecting' = [on |-> FALSE, token |-> 0, first |-> -1, tubes |-> empty,
                                    buffered |-> 0]
            BY <1>0, <5>2
          <5> QED BY <3>2, <5>1, <5>2
        <4>2. recording' \in [Stores -> Int] /\ pts' \in Int
          BY <3>0 DEF ExportTypes
        <4> QED BY <4>1, <4>2 DEF ExportTypes
      <3>4. Buffered'
        BY <1>0, <3>2 DEF Buffered
      <3>5. OfTheClip'
        <4>1. \A r \in Stores : recording'[r] = -1 \/ recording'[r] = recording[r]
          BY <3>0 DEF ExportTypes
        <4>2. CASE collecting' = collecting
          BY <3>0, <4>1, <4>2 DEF OfTheClip, Export!Idle
        <4>3. CASE collecting'.tubes = empty
          <5>1. \A from : Within(collecting'.tubes, from)
            BY <1>0, <4>3
          <5> QED BY <3>0, <4>1, <5>1 DEF OfTheClip, Export!Idle
        <4> QED BY <3>2, <4>2, <4>3
      <3>6. Written'
        <4>1. CASE assets' = assets
          BY <4>1 DEF Written
        <4>2. CASE assets' = [clip |-> s, token |-> collecting.token, first |-> collecting.first,
                              from |-> recording[s], tubes |-> collecting.tubes]
          <5>1. Cardinality(Counted(collecting.tubes)) <= MaxSamples
            <6>1. IsFiniteSet(Counted(collecting.tubes))
              <7>1. IsFiniteSet(1..MaxFrames)
                BY FS_Interval
              <7>2. Counted(collecting.tubes) \subseteq Clipped \X (1..MaxFrames)
                BY DEF Counted
              <7> QED BY <7>1, <7>2, FS_Product, FS_Subset
            <6>2. Cardinality(Counted(collecting.tubes)) \in Nat
              BY <6>1, FS_CardinalityType
            <6> QED BY <6>2 DEF Buffered, ExportTypes
          <5> QED BY <3>1, <4>2, <5>1 DEF Written, Buffered
        <4> QED BY <2>4, <4>1, <4>2 DEF Export!EventClip
      <3> QED BY <3>3, <3>4, <3>5, <3>6
    <2>5. CASE UNCHANGED Export!exportVars
      BY <2>5 DEF Export!exportVars, ExportTypes, Buffered, OfTheClip, Written
    <2> QED BY <2>1, <2>2, <2>3, <2>4, <2>5 DEF Export!Next
  <1>3. ASSUME ExportInv PROVE Export!AssetsOfTheClip
    BY <1>3, ExportCardinality
       DEF ExportInv, Written, Apart, Within, Counted, Export!AssetsOfTheClip
  <1> QED BY <1>1, <1>2, <1>3

-----------------------------------------------------------------------------
(* describe_vlm. *)

(* What fires names a stream, and an armed worker has been fired. *)
DescribeTypes ==
    /\ latest \in {0} \cup SceneStreams
    /\ trigger \in [fired : BOOLEAN, last : {0} \cup SceneStreams]
    /\ describer \in [at : {"top", "woken", "armed", "asks", "exited"},
                      cur : {0} \cup SceneStreams, cool : BOOLEAN]
Fired == /\ trigger.fired \/ describer.at = "armed" => trigger.last \in SceneStreams
         /\ describer.at = "asks" => describer.cur \in SceneStreams
DescribeInv == DescribeTypes /\ Fired /\ Describe!TriggerEmbedded

LEMMA DescribeHolds ==
  ASSUME 0 \notin SceneStreams
  PROVE  /\ Describe!Init \/ Describe!Off => DescribeInv
         /\ DescribeInv /\ [Describe!Next]_Describe!describeVars => DescribeInv'
  <1> USE DEF DescribeInv, DescribeTypes, Fired, Describe!TriggerEmbedded
  <1>1. ASSUME Describe!Init \/ Describe!Off PROVE DescribeInv
    <2>1. /\ latest = 0 /\ trigger = [fired |-> FALSE, last |-> 0]
          /\ described = [frame |-> 0, trigger |-> 0]
      BY <1>1 DEF Describe!Init, Describe!Off, Describe!Rest
    <2>2. \/ describer = [at |-> "top", cur |-> 0, cool |-> TRUE]
          \/ describer = [at |-> "exited", cur |-> 0, cool |-> TRUE]
      BY <1>1 DEF Describe!Init, Describe!Off
    <2>3. describer \in [at : {"top", "woken", "armed", "asks", "exited"},
                         cur : {0} \cup SceneStreams, cool : BOOLEAN]
          /\ describer.at \notin {"armed", "asks"}
      <3>1. CASE describer = [at |-> "top", cur |-> 0, cool |-> TRUE]
        BY <3>1
      <3>2. CASE describer = [at |-> "exited", cur |-> 0, cool |-> TRUE]
        BY <3>2
      <3> QED BY <2>2, <3>1, <3>2
    <2>4. described.frame = 0
      BY <2>1
    <2> QED BY <2>1, <2>3, <2>4
  <1>2. ASSUME DescribeInv, [Describe!Next]_Describe!describeVars PROVE DescribeInv'
    <2> USE <1>2 DEF Describe!On, Describe!Go
    <2>1. ASSUME NEW s \in SceneStreams, Describe!OnFrame(s) PROVE DescribeInv'
      BY <2>1 DEF Describe!OnFrame
    <2>2. ASSUME NEW s \in SceneStreams, Describe!TriggerCb(s) PROVE DescribeInv'
      BY <2>2 DEF Describe!TriggerCb
    <2>3. CASE Describe!Cools
      BY <2>3 DEF Describe!Cools
    <2>4. CASE Describe!Waits
      BY <2>4 DEF Describe!Waits
    <2>5. CASE Describe!Decides
      <3>1. CASE trigger' = trigger /\ describer' = [describer EXCEPT !.at = "exited"]
        BY <2>5, <3>1 DEF Describe!Decides
      <3>2. CASE /\ trigger' = [trigger EXCEPT !.fired = FALSE]
                 /\ trigger.fired /\ describer' = [at |-> "armed", cur |-> 0, cool |-> FALSE]
        BY <2>5, <3>2 DEF Describe!Decides
      <3>3. CASE /\ trigger' = [trigger EXCEPT !.fired = FALSE]
                 /\ describer' = [describer EXCEPT !.at = "top"]
        BY <2>5, <3>3 DEF Describe!Decides
      <3> QED BY <2>5, <3>1, <3>2, <3>3 DEF Describe!Decides
    <2>6. CASE Describe!Snapshots
      BY <2>6 DEF Describe!Snapshots, Describe!CurTrigger
    <2>7. CASE Describe!Describes
      BY <2>7 DEF Describe!Describes
    <2>8. CASE Describe!StopFlags \/ Describe!StopJoins \/ UNCHANGED Describe!describeVars
      BY <2>8 DEF Describe!StopFlags, Describe!StopJoins, Describe!describeVars
    <2> QED BY <2>1, <2>2, <2>3, <2>4, <2>5, <2>6, <2>7, <2>8 DEF Describe!Next, Describe!Worker
  <1> QED BY <1>1, <1>2

-----------------------------------------------------------------------------
(* store_snapshot. *)

(* A picture that is copied takes its stream along. *)
Picture == [stream : Cameras \cup {0}, at : Nat]
ShotTypes ==
    /\ shot \in Picture /\ wall \in Nat /\ lastShot \in Nat
    /\ taker \in [Publishers -> [at : {"idle", "decided", "copied"}, now : Nat,
                                stream : Cameras \cup {0}, shot : Picture]]
    /\ files \subseteq [stream : Cameras \cup {0}, shot : Picture, now : Nat]
Labelled == \A p \in Publishers : taker[p].at = "copied" => taker[p].stream = taker[p].shot.stream
ShotInv == ShotTypes /\ Labelled /\ Snapshot!NamedRight

(* What event_cb does of publisher p: decide, give up, copy or write. *)
LEMMA TakerStep ==
  ASSUME ShotInv, NEW p \in Publishers, MinInterval \in Nat,
         Snapshot!EventCb(p) \/ Snapshot!Copy(p) \/ Snapshot!Write(p)
  PROVE  ShotInv'
  <1> USE DEF ShotInv, ShotTypes, Labelled, Snapshot!NamedRight, Picture
  <1>1. Snapshot!Resting \in [at : {"idle", "decided", "copied"}, now : Nat,
                             stream : Cameras \cup {0}, shot : Picture]
    BY DEF Snapshot!Resting, Snapshot!NoShot
  <1>2. CASE Snapshot!EventCb(p)
    <2> DEFINE Taker == [at : {"idle", "decided", "copied"}, now : Nat,
                         stream : Cameras \cup {0}, shot : Picture]
               decided == [Snapshot!Resting EXCEPT !.at = "decided", !.now = wall]
    <2>1. decided \in Taker /\ decided.at = "decided" /\ decided.now = wall
      BY <1>1
    <2>2. taker' = [taker EXCEPT ![p] = decided]
      BY <1>2 DEF Snapshot!EventCb
    <2> HIDE DEF decided
    <2>3. UNCHANGED <<shot, wall, lastShot, files>>
      BY <1>2 DEF Snapshot!EventCb
    <2>4. /\ taker' \in [Publishers -> Taker] /\ taker'[p] = decided
          /\ \A q \in Publishers : q # p => taker'[q] = taker[q]
      BY <2>1, <2>2
    <2>5. ShotInv'
      BY <2>1, <2>3, <2>4
    <2> QED BY <2>5
  <1>3. CASE Snapshot!Copy(p)
    <2>1. CASE taker' = [taker EXCEPT ![p] = Snapshot!Resting] /\ UNCHANGED lastShot
      BY <1>1, <1>3, <2>1 DEF Snapshot!Copy, Snapshot!Resting
    <2>2. CASE /\ taker' = [taker EXCEPT ![p].at = "copied", ![p].stream = shot.stream,
                                         ![p].shot = shot]
               /\ lastShot' = Snapshot!Reserved(p)
      <3> DEFINE Taker == [at : {"idle", "decided", "copied"}, now : Nat,
                           stream : Cameras \cup {0}, shot : Picture]
                 copied == [taker EXCEPT ![p].at = "copied"]
                 named == [copied EXCEPT ![p].stream = shot.stream]
      <3>1. /\ copied \in [Publishers -> Taker]
            /\ copied[p].at = "copied" /\ copied[p].now = taker[p].now
            /\ \A q \in Publishers : q # p => copied[q] = taker[q]
        OBVIOUS
      <3> HIDE DEF copied
      <3>2. /\ named \in [Publishers -> Taker] /\ named[p].stream = shot.stream
            /\ named[p].at = "copied" /\ named[p].now = taker[p].now
            /\ \A q \in Publishers : q # p => named[q] = taker[q]
        BY <3>1
      <3>3. taker' = [named EXCEPT ![p].shot = shot]
        BY <2>2 DEF copied
      <3> HIDE DEF named
      <3>4. /\ taker' \in [Publishers -> Taker]
            /\ taker'[p].stream = shot.stream /\ taker'[p].shot = shot
            /\ taker'[p].at = "copied" /\ taker'[p].now = taker[p].now
            /\ \A q \in Publishers : q # p => taker'[q] = taker[q]
        BY <3>2, <3>3
      <3> QED BY <1>3, <2>2, <3>4 DEF Snapshot!Copy, Snapshot!Reserved
    <2> QED BY <1>3, <2>1, <2>2 DEF Snapshot!Copy
  <1>4. CASE Snapshot!Write(p)
    <2> DEFINE file == [stream |-> taker[p].stream, shot |-> taker[p].shot, now |-> taker[p].now]
    <2>1. /\ taker[p].at = "copied" /\ taker' = [taker EXCEPT ![p] = Snapshot!Resting]
          /\ UNCHANGED <<shot, wall, lastShot>> /\ files' \subseteq files \cup {file}
      BY <1>4 DEF Snapshot!Write, Snapshot!NamedFor
    <2>2. /\ file \in [stream : Cameras \cup {0}, shot : Picture, now : Nat]
          /\ file.stream = file.shot.stream /\ file.now = taker[p].now
      BY <2>1
    <2> HIDE DEF file
    <2>3. /\ taker'[p].at = "idle" /\ \A q \in Publishers : q # p => taker'[q] = taker[q]
      BY <2>1 DEF Snapshot!Resting
    <2>4. ShotTypes'
      BY <1>1, <2>1, <2>2
    <2>5. Labelled'
      BY <2>1, <2>3
    <2>6. Snapshot!NamedRight'
      BY <2>1, <2>2
    <2> QED BY <2>4, <2>5, <2>6
  <1> QED BY <1>2, <1>3, <1>4

(* Steps of the clock and of the stage's thread. *)
LEMMA PictureStep ==
  ASSUME ShotInv, \/ Snapshot!Tick \/ UNCHANGED Snapshot!snapshotVars
                  \/ \E c \in Cameras : Snapshot!HandleFrame(c)
  PROVE  ShotInv'
  BY DEF ShotInv, ShotTypes, Labelled, Snapshot!NamedRight, Picture, Snapshot!Tick,
         Snapshot!HandleFrame, Snapshot!snapshotVars

(* The invariant holds. *)
LEMMA ShotHolds ==
  ASSUME MinInterval \in Nat
  PROVE  /\ Snapshot!Init => ShotInv
         /\ ShotInv /\ [Snapshot!Next]_Snapshot!snapshotVars => ShotInv'
  <1>1. Snapshot!Init => ShotInv
    BY DEF Snapshot!Init, ShotInv, ShotTypes, Labelled, Snapshot!NamedRight, Picture,
           Snapshot!NoShot, Snapshot!Resting
  <1>2. ShotInv /\ [Snapshot!Next]_Snapshot!snapshotVars => ShotInv'
    BY TakerStep, PictureStep DEF Snapshot!Next
  <1> QED BY <1>1, <1>2

(* store_snapshot: the file named for a camera holds its picture, though frames of others *)
(* arrive while it is written, for any cameras and publishers.                            *)
THEOREM PicturesNamed ==
  ASSUME MinInterval \in Nat
  PROVE  Snapshot!Spec => []Snapshot!NamedRight
  <1>1. ShotInv => Snapshot!NamedRight
    BY DEF ShotInv
  <1> QED BY <1>1, ShotHolds, PTL DEF Snapshot!Spec

-----------------------------------------------------------------------------
(* overlay. *)

(* Boxes are kept with their own stream and the time they came. *)
Boxes == [event : Nat, at : Nat, of : {0} \cup Streams]
BoxTypes == /\ boxCache \in [Streams -> Boxes] /\ handling \in [Publishers -> Boxes]
            /\ published \in Nat /\ overlayClock \in Nat
Own == /\ \A s \in Streams : boxCache[s] # Draw!NoEvent => boxCache[s].of = s
       /\ \A p \in Publishers : handling[p] # Draw!NoEvent => handling[p].of \in Streams
DrawInv == BoxTypes /\ Own /\ Draw!OwnFreshBoxes

LEMMA DrawHolds ==
  ASSUME Ttl \in Nat
  PROVE  /\ Draw!Init => DrawInv
         /\ DrawInv /\ [Draw!Next]_Draw!overlayVars => DrawInv'
  <1>1. Draw!Init => DrawInv
    BY DEF Draw!Init, DrawInv, BoxTypes, Boxes, Own, Draw!NoEvent, Draw!NotDrawn, Draw!OwnFreshBoxes
  <1>2. DrawInv /\ [Draw!Next]_Draw!overlayVars => DrawInv'
    <2> SUFFICES ASSUME DrawInv, [Draw!Next]_Draw!overlayVars PROVE DrawInv'
      OBVIOUS
    <2> USE DEF DrawInv, BoxTypes, Own
    <2>0. Draw!NoEvent \in Boxes
      BY DEF Draw!NoEvent, Boxes
    <2>1. ASSUME NEW p \in Publishers, NEW s \in Streams, NEW t, Draw!EventArrives(p, s, t)
          PROVE  DrawInv'
      <3> DEFINE new == [event |-> published + 1, at |-> overlayClock, of |-> s]
      <3>1. new \in Boxes /\ new.of = s
        BY DEF Boxes
      <3>2. handling' = handling \/ handling' = [handling EXCEPT ![p] = new]
        BY <2>1 DEF Draw!EventArrives
      <3> HIDE DEF new
      <3>3. UNCHANGED <<boxCache, overlayClock, drawn>> /\ published' \in Nat
        BY <2>1 DEF Draw!EventArrives
      <3>4. BoxTypes' /\ Own'
        BY <3>1, <3>2, <3>3
      <3> QED BY <3>3, <3>4 DEF Draw!OwnFreshBoxes
    <2>2. ASSUME NEW p \in Publishers, Draw!BoxesCached(p) PROVE DrawInv'
      <3> DEFINE set == handling[p]
      <3>1. /\ set \in Boxes /\ set.of \in Streams
            /\ boxCache' = [boxCache EXCEPT ![set.of] = set]
            /\ handling' = [handling EXCEPT ![p] = Draw!NoEvent]
            /\ UNCHANGED <<overlayClock, drawn, published>>
        BY <2>2 DEF Draw!BoxesCached, Draw!Replaced
      <3> HIDE DEF set
      <3>2. BoxTypes'
        BY <3>1, <2>0
      <3>3. Own'
        BY <3>1
      <3> QED BY <3>1, <3>2, <3>3 DEF Draw!OwnFreshBoxes
    <2>3. ASSUME NEW s \in Streams, Draw!FrameDrawn(s) PROVE DrawInv'
      <3>1. boxCache[s].of = s /\ (Ttl = 0 \/ overlayClock - boxCache[s].at <= Ttl)
        BY <2>3 DEF Draw!FrameDrawn, Draw!Fresh
      <3> QED BY <2>3, <3>1 DEF Draw!FrameDrawn, Draw!OwnFreshBoxes
    <2>4. CASE Draw!TimePasses
      BY <2>4 DEF Draw!TimePasses, Draw!OwnFreshBoxes
    <2>5. CASE Draw!Stopped \/ UNCHANGED Draw!overlayVars
      BY <2>5 DEF Draw!Stopped, Draw!overlayVars, Draw!OwnFreshBoxes
    <2> QED BY <2>1, <2>2, <2>3, <2>4, <2>5 DEF Draw!Next
  <1> QED BY <1>1, <1>2

-----------------------------------------------------------------------------
(* EventPlugins: each part takes its own steps only. *)
LEMMA EachPart ==
  ASSUME [EventNext]_allVars
  PROVE  /\ [Gate!Next]_Gate!gateVars /\ [Motion!Next]_Motion!motionVars
         /\ [Zone!Next]_Zone!zonesVars /\ [Detect!Next]_Detect!detectorVars
         /\ [Engine!Next]_Engine!engineVars /\ [Review!Next]_Review!reviewVars
         /\ [Rules!Next]_Rules!rulesVars /\ [Alert!Next]_Alert!alertVars
         /\ [Export!Next]_Export!exportVars /\ [Describe!Next]_Describe!describeVars
         /\ [Snapshot!Next]_Snapshot!snapshotVars /\ [Draw!Next]_Draw!overlayVars
         /\ [Track!Next]_Track!trackerVars
  <1>1. CASE EventNext
    BY <1>1 DEF EventNext, Others, Rests, gateVars, motionVars, zonesVars, detectorVars,
         engineVars, rulesVars, alertVars, reviewVars, exportVars, describeVars,
         snapshotVars, overlayVars, trackerVars,
         Gate!gateVars, Motion!motionVars, Zone!zonesVars, Detect!detectorVars,
         Engine!engineVars, Rules!rulesVars, Alert!alertVars, Review!reviewVars, Export!exportVars, Describe!describeVars,
         Snapshot!snapshotVars, Draw!overlayVars, Track!trackerVars
  <1>2. CASE UNCHANGED allVars
    BY <1>2 DEF allVars, gateVars, motionVars, zonesVars, detectorVars,
         engineVars, rulesVars, alertVars, reviewVars, exportVars, describeVars,
         snapshotVars, overlayVars, trackerVars,
         Gate!gateVars, Motion!motionVars, Zone!zonesVars, Detect!detectorVars,
         Engine!engineVars, Rules!rulesVars, Alert!alertVars, Review!reviewVars, Export!exportVars, Describe!describeVars,
         Snapshot!snapshotVars, Draw!overlayVars, Track!trackerVars
  <1> QED BY <1>1, <1>2

(* What is looked at, for any scenes, zones, boxes of light and sweeps: the gate is open    *)
(* for motion, the plate follows the light, a zone is found where it is, and what stands    *)
(* still is shown in every sweep.  For the detector: without the setups of the README's     *)
(* further instances, in which a sweep can be missed.                                       *)
THEOREM LooksWhereItShould ==
  ASSUME GateCooldown \in Nat, "none" \notin GateScenes, "opaque" \notin GateScenes,
         Lit \subseteq [{"lane", "tail"} -> Int], Illum \in Nat, Alpha \in Int,
         Points \subseteq Nat, Sweep \in Nat \ {0}, Gaps \subseteq Nat,
         \A s \in DetectorSetups : /\ ~(s.shared /\ s.frames = "rgb")
                                   /\ s.restarts => s.gate = "whole" \/ s.shared
  PROVE  EventSpec => []LookedAt
  <1> DEFINE Inv == GateInv /\ MotionInv /\ ZonesInv /\ StandInv
  <1>1. EventInit => Inv
    <2>1. EventInit => Gate!Init /\ (Motion!Init \/ Motion!Off) /\ Zone!Init /\ Detect!Init
      BY DEF EventInit
    <2> QED BY <2>1, GateHolds, MotionHolds, ZonesHold, StandHolds
  <1>2. Inv /\ [EventNext]_allVars => Inv'
    BY EachPart, GateHolds, MotionHolds, ZonesHold, StandHolds
  <1>3. Inv => LookedAt
    BY ZonesFound, StandHolds DEF LookedAt, GateInv, MotionInv
  <1> QED BY <1>1, <1>2, <1>3, PTL DEF EventSpec

(* One object, one id, for any sequences of detections of one class or of none, any max_age *)
(* and min_hits: the ids of a batch differ, and one object alone in the picture that moves  *)
(* slowly keeps its id, also when it turns round where it was not predicted to.             *)
THEOREM OneObjectOneId ==
  ASSUME NEW c, Batches \subseteq Seq(Detections(c)), MaxAge \in Nat
  PROVE  EventSpec => []OneIdEach
  <1>1. EventInit => TrackInv(c)
    BY TrackHolds DEF EventInit
  <1>2. TrackInv(c) /\ [EventNext]_allVars => TrackInv(c)'
    BY EachPart, TrackHolds
  <1>3. TrackInv(c) => OneIdEach
    BY TrackHolds DEF OneIdEach
  <1> QED BY <1>1, <1>2, <1>3, PTL DEF EventSpec

(* Alarms are deserved and not repeated, for any rules surveyed as above, any tracks and    *)
(* paths, over the line or on it, and any clocks, which may go back, as they do when a      *)
(* stream connects again: an object is stationary only when it has stood still by time     *)
(* stamps that went forward, a visit is reported once, and what strides over the line in    *)
(* its direction is reported, nothing else.                                                *)
THEOREM AlarmsAreDeserved ==
  ASSUME Surveyed, Stamps \subseteq Seq(Nat),
         Wrap \in Nat, Stationary \in Nat \ {0}, Forget \in Nat,
         Clocks \subseteq Seq(0..Wrap - 1)
  PROVE  EventSpec => []AlarmsDeserved
  <1> DEFINE Inv == RulesInv /\ AlertInv
  <1>1. EventInit => Inv
    <2>1. EventInit => (Rules!Init \/ Rules!Off) /\ (Alert!Init \/ Alert!Off)
      BY DEF EventInit
    <2> QED BY <2>1, RulesHold, AlertHolds
  <1>2. Inv /\ [EventNext]_allVars => Inv'
    BY EachPart, RulesHold, AlertHolds
  <1>3. Inv => AlarmsDeserved
    BY AlertHolds, VisitsReported, CrossingsReported DEF AlarmsDeserved
  <1> QED BY <1>1, <1>2, <1>3, PTL DEF EventSpec

(* What goes together stays together across the threads, for any callers and input sizes,   *)
(* stores, objects and frames, described streams, cameras and publishers: an answer is of    *)
(* the caller's own picture, assets are of their clip's time, a snapshot is of the camera it *)
(* is named for, a description carries an event, and boxes are drawn on their own stream.    *)
THEOREM EvidenceIsItsOwn ==
  ASSUME MaxBatch \in Nat, IsFiniteSet(Clipped), MaxFrames \in Nat, MaxSamples \in Nat,
         MinGap \in Int, 0 \notin SceneStreams, MinInterval \in Nat, Ttl \in Nat
  PROVE  EventSpec => []EvidenceFits
  <1> DEFINE Inv == EngineInv /\ ExportInv /\ DescribeInv /\ ShotInv /\ DrawInv
  <1>1. EventInit => Inv
    <2>1. EventInit => /\ Engine!Init /\ Export!Init /\ (Describe!Init \/ Describe!Off)
                       /\ Snapshot!Init /\ Draw!Init
      BY DEF EventInit
    <2> QED BY <2>1, EngineHolds, ExportHolds, DescribeHolds, DrawHolds, ShotHolds
  <1>2. Inv /\ [EventNext]_allVars => Inv'
    BY EachPart, EngineHolds, ExportHolds, DescribeHolds, DrawHolds, ShotHolds
  <1>3. Inv => EvidenceFits
    BY EngineHolds, ExportHolds DEF EvidenceFits, ShotInv, DescribeInv, DrawInv
  <1> QED BY <1>1, <1>2, <1>3, PTL DEF EventSpec

(* No step goes back on a rule: for any tracks and debounce no longer than the time after    *)
(* which a track is forgotten, and any objects on a row of cells, where no inference fails.  *)
THEOREM NeverBack ==
  ASSUME Debounce \in Nat, Prune \in Nat, Debounce <= Prune, Prune + 1 < Review!Never,
         NEW n \in Nat, Cells = 1..n, 0 \notin Objects
  PROVE  EventSpec => StepsInOrder
  <1> DEFINE Inv == ReviewInv /\ Compared
  <1>1. EventInit => Inv
    <2>1. EventInit => (Review!Init \/ Review!Off) /\ Detect!Init
      BY DEF EventInit
    <2> QED BY <2>1, ReviewHolds, MovingShown
  <1>2. Inv /\ [EventNext]_allVars => Inv'
    BY EachPart, ReviewHolds, MovingShown
  <1>3. Inv /\ [EventNext]_allVars =>
          [\A t \in Tracks : Len(jobs') > Len(jobs) /\ jobs'[Len(jobs')] = t
               => asked[t] >= Debounce]_Review!reviewVars
    BY EachPart, ReviewHolds
  <1>4. Inv /\ [EventNext]_allVars =>
          [Detect!Roi /\ setup.gate = "bbox" /\ ~setup.fails =>
               \A o \in Objects : where'[o] # where[o] /\ where[o] # 0
                                     => unseen'[o] = 0]_Detect!detectorVars
    BY EachPart, MovingShown
  <1>5. EventSpec => Review!DebounceHolds
    BY <1>1, <1>2, <1>3, PTL DEF EventSpec, Review!DebounceHolds
  <1>6. EventSpec => Detect!MovingSeen
    BY <1>1, <1>2, <1>4, PTL DEF EventSpec, Detect!MovingSeen
  <1> QED BY <1>5, <1>6 DEF StepsInOrder
==============================================================================
