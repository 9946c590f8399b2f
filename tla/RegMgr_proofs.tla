--------------------------- MODULE RegMgr_proofs ----------------------------
(***************************************************************************)
(* Proofs about the topic registry, for any number of topics and any       *)
(* maximal topic id.                                                       *)
(***************************************************************************)
EXTENDS RegMgr, WellFoundedInduction, FiniteSetTheorems, TLAPS

-----------------------------------------------------------------------------
(* The least and the greatest member of a set of topic ids. *)

\* A non-empty set of naturals has a least member, which begin() of the id
\* index yields.
LEMMA SmallestIsLeast ==
    ASSUME NEW S \in SUBSET Nat, S # {}
    PROVE  Smallest(S) \in S /\ \A y \in S : Smallest(S) <= y
<1>1. PICK x \in S : \A y \in S : ~ (<<y, x>> \in OpToRel(<, Nat))
  BY NatLessThanWellFounded, WFMin
<1>2. ASSUME NEW y \in S PROVE x <= y
  <2>1. y < x => <<y, x>> \in OpToRel(<, Nat)
    <3>1. <<y, x>> \in Nat \X Nat  OBVIOUS
    <3>2. <<y, x>>[1] = y /\ <<y, x>>[2] = x  OBVIOUS
    <3> QED  BY <3>1, <3>2, Zenon DEF OpToRel
  <2>2. ~ (y < x)  BY <1>1, <2>1, Zenon
  <2> QED  BY <2>2
<1> QED
  BY <1>2 DEF Smallest

\* A non-empty bounded set of naturals has a greatest member, which rbegin()
\* of the id index yields.
LEMMA LargestIsGreatest ==
    ASSUME NEW n \in Nat, NEW S \in SUBSET (0 .. n), S # {}
    PROVE  Largest(S) \in S /\ \A y \in S : y <= Largest(S)
<1> DEFINE T == {n - x : x \in S}
<1>1. T \in SUBSET Nat /\ T # {}
  <2>1. \A x \in S : n - x \in Nat  OBVIOUS
  <2>2. PICK x : x \in S  OBVIOUS
  <2> QED  BY <2>1, <2>2
<1>2. Smallest(T) \in T /\ \A y \in T : Smallest(T) <= y
  BY <1>1, SmallestIsLeast
<1> HIDE DEF T
<1>3. PICK x \in S : Smallest(T) = n - x
  BY <1>2 DEF T
<1>4. \A y \in S : n - y \in T
  BY DEF T
<1>5. \A y \in S : y <= x
  BY <1>2, <1>3, <1>4
<1> QED
  BY <1>5 DEF Largest

\* std::max and std::min of two ids.
LEMMA OfTwo ==
    ASSUME NEW a \in Nat, NEW b \in Nat
    PROVE  /\ Largest({a, b}) = IF a <= b THEN b ELSE a
           /\ Smallest({a, b}) = IF a <= b THEN a ELSE b
<1>1. Smallest({a, b}) \in {a, b} /\ \A y \in {a, b} : Smallest({a, b}) <= y
  BY SmallestIsLeast
<1>2. \E n \in Nat : a <= n /\ b <= n
  <2>1. CASE a <= b  BY <2>1
  <2>2. CASE b <= a  BY <2>2
  <2> QED  BY <2>1, <2>2
<1>3. PICK n \in Nat : a <= n /\ b <= n
  BY <1>2
<1>4. {a, b} \in SUBSET (0 .. n) /\ {a, b} # {}
  BY <1>3
<1>5. Largest({a, b}) \in {a, b} /\ \A y \in {a, b} : y <= Largest({a, b})
  BY <1>4, LargestIsGreatest
<1> QED
  BY <1>1, <1>5

-----------------------------------------------------------------------------
(* The id a new topic gets. *)

\* What begin(), rbegin() and the search for a gap see of the id index.
LEMMA IdIndexBounds ==
    ASSUME TypeOK, DOMAIN m_regInfosRevMap # {}, NEW ids, ids = DOMAIN m_regInfosRevMap
    PROVE  /\ Largest(ids) \in ids /\ \A y \in ids : y <= Largest(ids)
           /\ Smallest(ids) \in ids /\ \A y \in ids : Smallest(ids) <= y
           /\ ids \subseteq 1 .. MaxTopicId + 1
           /\ Cardinality(ids) \in Nat
           /\ Gaps(ids) # {} => /\ Smallest(Gaps(ids)) \in Gaps(ids)
                                /\ \A y \in Gaps(ids) : Smallest(Gaps(ids)) <= y
<1>1. ids \in SUBSET (0 .. MaxTopicId + 1) /\ ids \subseteq 1 .. MaxTopicId + 1
  BY DEF TypeOK, TopicId
<1>2. MaxTopicId + 1 \in Nat
  BY RegMgrAssumption
<1>3. Largest(ids) \in ids /\ \A y \in ids : y <= Largest(ids)
  BY <1>1, <1>2, LargestIsGreatest
<1>4. ids \in SUBSET Nat
  BY <1>1
<1>5. Smallest(ids) \in ids /\ \A y \in ids : Smallest(ids) <= y
  BY <1>4, SmallestIsLeast
<1>6. Cardinality(ids) \in Nat
  <2>1. IsFiniteSet(0 .. MaxTopicId + 1)  BY <1>2, FS_Interval
  <2>2. IsFiniteSet(ids)  BY <1>1, <2>1, FS_Subset
  <2> QED  BY <2>2, FS_CardinalityType
<1>7. Gaps(ids) \in SUBSET Nat
  BY <1>6 DEF Gaps
<1>8. Gaps(ids) # {} => /\ Smallest(Gaps(ids)) \in Gaps(ids)
                        /\ \A y \in Gaps(ids) : Smallest(Gaps(ids)) <= y
  BY <1>7, SmallestIsLeast
<1> QED
  BY <1>1, <1>3, <1>5, <1>6, <1>8

\* The id that is replaced is one in use.
LEMMA EvictedInUse ==
    ASSUME TypeOK, Evictable # {}
    PROVE  Smallest(Evictable) \in DOMAIN m_regInfosRevMap
<1>1. Evictable \subseteq DOMAIN m_regInfosRevMap
  BY DEF Evictable
<1>2. DOMAIN m_regInfosRevMap \subseteq Nat
  <2>1. DOMAIN m_regInfosRevMap \subseteq TopicId
    BY DEF TypeOK
  <2>2. TopicId \subseteq Nat
    BY DEF TopicId
  <2> QED  BY <2>1, <2>2
<1>3. Evictable \in SUBSET Nat
  BY <1>1, <1>2
<1>4. Smallest(Evictable) \in Evictable
  BY <1>3, SmallestIsLeast
<1> QED  BY <1>1, <1>4

\* mapTopic never computes an id outside 16 bits, whatever range is configured.
LEMMA AllocType ==
    ASSUME TypeOK, ~ IdIndexLost
    PROVE  AllocTopicId(DOMAIN m_regInfosRevMap) \in TopicId
<1> DEFINE ids == DOMAIN m_regInfosRevMap
<1>1. CASE DOMAIN m_regInfos = {}
  BY <1>1 DEF AllocTopicId, TypeOK
<1>2. CASE DOMAIN m_regInfos # {}
  <2>1. ids # {}
    BY <1>2 DEF IdIndexLost
  <2>2. /\ Largest(ids) \in ids /\ Smallest(ids) \in ids
        /\ ids \subseteq 1 .. MaxTopicId + 1
        /\ Cardinality(ids) \in Nat
        /\ Gaps(ids) # {} => Smallest(Gaps(ids)) \in Gaps(ids)
    BY <2>1, IdIndexBounds
  <2>3. /\ MaxTopicId \in Nat
        /\ m_minTopicId \in 1 .. MaxTopicId + 1
        /\ m_maxTopicId \in 0 .. MaxTopicId
    BY RegMgrAssumption DEF TypeOK, TopicId
  <2>4. Largest(ids) < m_maxTopicId => Largest({Largest(ids) + 1, m_minTopicId}) \in TopicId
    <3>1. SUFFICES ASSUME Largest(ids) < m_maxTopicId
                   PROVE  Largest({Largest(ids) + 1, m_minTopicId}) \in TopicId
      OBVIOUS
    <3>2. PICK hi \in 1 .. MaxTopicId : hi = Largest(ids) + 1  BY <2>2, <2>3, <3>1
    <3>3. hi \in Nat /\ m_minTopicId \in Nat  BY <2>3
    <3>4. Largest({hi, m_minTopicId}) \in {hi, m_minTopicId}  BY <3>3, OfTwo
    <3> QED  BY <2>3, <3>2, <3>4 DEF TopicId
  <2>5. Smallest({Smallest(ids) - 1, m_maxTopicId}) \in TopicId
    <3>1. PICK lo \in 0 .. MaxTopicId : lo = Smallest(ids) - 1  BY <2>2, <2>3
    <3>2. Smallest({lo, m_maxTopicId}) \in {lo, m_maxTopicId}  BY <2>3, OfTwo
    <3> QED  BY <2>3, <3>1, <3>2 DEF TopicId
  <2>6. Gaps(ids) # {} => Smallest(Gaps(ids)) \in TopicId
    BY <2>2, <2>3 DEF TopicId, Gaps
  <2>7. 0 \in TopicId
    BY <2>3 DEF TopicId
  <2> QED
    BY <1>2, <2>4, <2>5, <2>6, <2>7 DEF AllocTopicId
<1> QED
  BY <1>1, <1>2

\* With a range that starts at 1 the id mapTopic picks is not in use.
LEMMA AllocFresh ==
    ASSUME TypeOK, ~ IdIndexLost, m_minTopicId = 1, DOMAIN m_regInfos # {},
           AllocTopicId(DOMAIN m_regInfosRevMap) # 0
    PROVE  AllocTopicId(DOMAIN m_regInfosRevMap) \notin DOMAIN m_regInfosRevMap
<1> DEFINE ids == DOMAIN m_regInfosRevMap
<1>1. ids # {}
  BY DEF IdIndexLost
<1>2. /\ Largest(ids) \in ids /\ \A y \in ids : y <= Largest(ids)
      /\ Smallest(ids) \in ids /\ \A y \in ids : Smallest(ids) <= y
      /\ ids \subseteq 1 .. MaxTopicId + 1
      /\ Cardinality(ids) \in Nat
      /\ Gaps(ids) # {} => /\ Smallest(Gaps(ids)) \in Gaps(ids)
                           /\ \A y \in Gaps(ids) : Smallest(Gaps(ids)) <= y
  BY <1>1, IdIndexBounds
<1>3. MaxTopicId \in Nat /\ m_maxTopicId \in 0 .. MaxTopicId
  BY RegMgrAssumption DEF TypeOK
<1> HIDE DEF ids
<1>. \A y \in ids : y \in Nat /\ 1 <= y
  BY <1>2, <1>3
<1>4. Largest({Largest(ids) + 1, m_minTopicId}) \notin ids
  <2>1. PICK hi \in ids : hi = Largest(ids) /\ \A y \in ids : y <= hi  BY <1>2, Zenon
  <2>2. hi + 1 \in Nat /\ hi \in Nat  OBVIOUS
  <2>3. Largest({hi + 1, m_minTopicId}) = hi + 1  BY <2>2, OfTwo
  <2>4. hi + 1 \notin ids  BY <2>1, <2>2
  <2> QED  BY <2>1, <2>3, <2>4
<1>5. m_minTopicId < Smallest(ids) => Smallest({Smallest(ids) - 1, m_maxTopicId}) \notin ids
  <2>1. PICK lo \in ids : lo = Smallest(ids) /\ \A y \in ids : lo <= y  BY <1>2, Zenon
  <2>2. lo - 1 \in Nat /\ lo \in Nat  OBVIOUS
  <2>3. m_maxTopicId \in Nat  BY <1>3
  <2>4. Smallest({lo - 1, m_maxTopicId}) =
           IF lo - 1 <= m_maxTopicId THEN lo - 1 ELSE m_maxTopicId
    BY <2>2, <2>3, OfTwo
  <2>5. \A y \in ids : y # Smallest({lo - 1, m_maxTopicId})
    BY <2>1, <2>2, <2>3, <2>4
  <2> QED  BY <2>1, <2>5
<1>6. Gaps(ids) # {} => Smallest(Gaps(ids)) \notin ids
  <2> SUFFICES ASSUME Gaps(ids) # {}, Smallest(Gaps(ids)) \in ids PROVE FALSE
    OBVIOUS
  <2>1. PICK g : g = Smallest(Gaps(ids))
    OBVIOUS
  <2>2. /\ g \in 1 .. Cardinality(ids) /\ ~ (1 .. g \subseteq ids)
        /\ g <= m_maxTopicId /\ g \in ids
    BY <1>2, <2>1 DEF Gaps
  <2>3. g - 1 \notin Gaps(ids)
    BY <1>2, <2>1, <2>2
  <2>4. 1 .. g - 1 \subseteq ids
    BY <1>2, <1>3, <2>2, <2>3 DEF Gaps
  <2>5. 1 .. g \subseteq ids
    BY <1>2, <2>2, <2>4
  <2> QED
    BY <2>2, <2>5
<1> QED
  BY <1>4, <1>5, <1>6 DEF AllocTopicId, ids

-----------------------------------------------------------------------------
(* Types and the id index. *)

\* An index entry must be sound for the types to be preserved: a step reads
\* cells through the id index.
SoundInv == TypeOK /\ IdIndexSound

LEMMA InitSound == Init => SoundInv
<1>1. DOMAIN << >> = {} /\ \A S : << >> \in [{} -> S]
  OBVIOUS
<1>2. MaxTopicId \in Nat \ {0}
  BY RegMgrAssumption
<1> SUFFICES ASSUME Init PROVE SoundInv
  OBVIOUS
<1>3. PICK e : e = << >> /\ DOMAIN e = {} /\ \A S : e \in [{} -> S]
  BY <1>1, Zenon
<1>4. m_regInfos = e /\ m_regInfosMap = e /\ m_regInfosRevMap = e /\ told = e
  BY <1>3, Zenon DEF Init
<1>5. /\ m_minTopicId \in TopicId \ {0} /\ m_maxTopicId \in 0 .. MaxTopicId
  BY <1>2 DEF Init, TopicId, DefaultMinTopicId
<1>6. evicted \in BOOLEAN /\ fault \in BOOLEAN
  BY Zenon DEF Init
<1> QED
  BY <1>3, <1>4, <1>5, <1>6 DEF SoundInv, TypeOK, IdIndexSound

\* The part of it that concerns the list and its indices.
Structure(list, map, rev) ==
    /\ DOMAIN list \subseteq Node
    /\ list \in [DOMAIN list -> RegInfo]
    /\ DOMAIN map \subseteq Topic
    /\ map \in [DOMAIN map -> Node]
    /\ DOMAIN rev \subseteq TopicId \ {0}
    /\ rev \in [DOMAIN rev -> Node]
    /\ \A i \in DOMAIN rev : rev[i] \in DOMAIN list /\ list[rev[i]].id = i

\* A new cell appended to consistent structures.
LEMMA PushBackSound ==
    ASSUME NEW n \in Node, NEW topic \in Topic, NEW id \in TopicId \ {0},
           NEW type \in {"Normal", "Predefined"},
           NEW STATE list, NEW STATE map, NEW STATE rev,
           Structure(list, map, rev), PushBack(n, topic, id, type, list, map, rev)
    PROVE  /\ Structure(m_regInfos', m_regInfosMap', m_regInfosRevMap')
           /\ n \notin DOMAIN list
           /\ DOMAIN m_regInfos' = DOMAIN list \cup {n}
           /\ m_regInfos'[n] = [topic |-> topic, id |-> id, type |-> type]
           /\ \A k \in DOMAIN list : m_regInfos'[k] = list[k]
           /\ DOMAIN m_regInfosRevMap' = DOMAIN rev \cup {id}
           /\ \A i \in DOMAIN rev : m_regInfosRevMap'[i] = rev[i]
           /\ id \notin DOMAIN rev => m_regInfosRevMap'[id] = n
<1> USE DEF Structure
<1> DEFINE info == [topic |-> topic, id |-> id, type |-> type]
<1>1. info \in RegInfo
  BY DEF RegInfo
<1>2. n \notin DOMAIN list /\ m_regInfos' = With(list, n, info)
  BY DEF PushBack
<1>3. /\ DOMAIN m_regInfos' = DOMAIN list \cup {n}
      /\ m_regInfos' \in [DOMAIN m_regInfos' -> RegInfo]
      /\ m_regInfos'[n] = info
      /\ \A k \in DOMAIN list : m_regInfos'[k] = list[k]
  <2> HIDE DEF info
  <2> QED  BY <1>1, <1>2 DEF With
<1>4. /\ DOMAIN m_regInfosMap' \subseteq Topic
      /\ m_regInfosMap' \in [DOMAIN m_regInfosMap' -> Node]
  BY DEF PushBack, MapInsert, With
<1>5. /\ DOMAIN m_regInfosRevMap' = DOMAIN rev \cup {id}
      /\ m_regInfosRevMap' \in [DOMAIN m_regInfosRevMap' -> Node]
      /\ \A i \in DOMAIN rev : m_regInfosRevMap'[i] = rev[i]
      /\ id \notin DOMAIN rev => m_regInfosRevMap'[id] = n
  BY DEF PushBack, MapInsert, With
<1>6. ASSUME NEW i \in DOMAIN rev \cup {id}
      PROVE  /\ m_regInfosRevMap'[i] \in DOMAIN m_regInfos'
             /\ m_regInfos'[m_regInfosRevMap'[i]].id = i
  <2>1. CASE i \in DOMAIN rev
    BY <1>3, <1>5, <2>1
  <2>2. CASE i \notin DOMAIN rev
    BY <1>3, <1>5, <2>2
  <2> QED
    BY <2>1, <2>2
<1> QED
  BY <1>2, <1>3, <1>4, <1>5, <1>6

\* Every operation of the registry keeps the id index pointing at live cells
\* with the right id, whatever range is configured and even when a full range
\* makes mapTopic replace a registration.
LEMMA NextSound == SoundInv /\ [Next]_vars => SoundInv'
<1> SUFFICES ASSUME SoundInv, [Next]_vars PROVE SoundInv'
  OBVIOUS
<1> USE DEF SoundInv
<1>0. MaxTopicId \in Nat
  BY RegMgrAssumption
<1>10. Structure(m_regInfos, m_regInfosMap, m_regInfosRevMap)
  BY DEF TypeOK, IdIndexSound, Structure
<1>1. ASSUME NEW r \in Ranges, SetTopicIdAllocationRange(r[1], r[2])
      PROVE  SoundInv'
  <2>1. r[1] \in 0 .. MaxTopicId + 1 /\ r[2] \in 0 .. MaxTopicId + 1
    BY RegMgrAssumption DEF TopicId
  <2>2. m_minTopicId' \in TopicId \ {0} /\ m_maxTopicId' \in 0 .. MaxTopicId
    <3>1. m_minTopicId' = IF r[1] <= 1 THEN 1 ELSE r[1]
      BY <1>0, <1>1, <2>1, OfTwo DEF SetTopicIdAllocationRange, DefaultMinTopicId
    <3>2. m_maxTopicId' = IF r[2] <= MaxTopicId THEN r[2] ELSE MaxTopicId
      <4>1. PICK hi \in Nat : hi = r[2]  BY <2>1
      <4>2. m_maxTopicId' = Smallest({hi, MaxTopicId})
        BY <1>1, <4>1 DEF SetTopicIdAllocationRange
      <4> QED  BY <1>0, <4>1, <4>2, OfTwo
    <3> QED
      BY <1>0, <2>1, <3>1, <3>2 DEF TopicId
  <2> QED
    BY <1>1, <2>2 DEF SetTopicIdAllocationRange, indices, TypeOK, IdIndexSound
<1>2. ASSUME NEW topic \in Topic, NEW id \in PredefinedIds, RegPredefined(topic, id)
      PROVE  SoundInv'
  <2>1. id \in TopicId \ {0}
    BY <1>2, RegMgrAssumption DEF RegPredefined
  <2>2. DOMAIN told' \subseteq TopicId /\ told' \in [DOMAIN told' -> Topic]
    BY <1>2, <2>1 DEF RegPredefined, With, TypeOK
  <2>3. UNCHANGED <<m_minTopicId, m_maxTopicId, evicted, fault>>
    BY <1>2 DEF RegPredefined, range
  <2>4. CASE \E n \in Node : PushBack(n, topic, id, "Predefined", m_regInfos,
                                      m_regInfosMap, m_regInfosRevMap)
    <3>1. PICK n \in Node : PushBack(n, topic, id, "Predefined", m_regInfos,
                                      m_regInfosMap, m_regInfosRevMap)
      BY <2>4
    <3>2. Structure(m_regInfos', m_regInfosMap', m_regInfosRevMap')
      BY <2>1, <3>1, <1>10, PushBackSound
    <3> QED
      BY <2>2, <2>3, <3>2 DEF TypeOK, IdIndexSound, Structure
  <2>5. CASE /\ m_regInfosMap[topic] \in Node
             /\ m_regInfos' = [m_regInfos EXCEPT ![m_regInfosMap[topic]].type = "Predefined"]
             /\ UNCHANGED <<m_regInfosMap, m_regInfosRevMap>>
    <3>1. /\ DOMAIN m_regInfos' = DOMAIN m_regInfos
          /\ m_regInfos' \in [DOMAIN m_regInfos -> RegInfo]
          /\ \A n \in DOMAIN m_regInfos : m_regInfos'[n].id = m_regInfos[n].id
      BY <2>5 DEF TypeOK, RegInfo
    <3> QED
      BY <2>2, <2>3, <2>5, <3>1 DEF TypeOK, IdIndexSound
  <2> QED
    BY <1>2, <2>4, <2>5 DEF RegPredefined, TypeOK
<1>3. ASSUME NEW topic \in Topic, MapKnownTopic(topic)
      PROVE  SoundInv'
  <2>1. DOMAIN told' \subseteq TopicId /\ told' \in [DOMAIN told' -> Topic]
    BY <1>3 DEF MapKnownTopic, With, TypeOK
  <2> QED
    BY <1>3, <2>1 DEF MapKnownTopic, indices, range, TypeOK, IdIndexSound
<1>4. ASSUME NEW topic \in Topic, MapNewTopic(topic)
      PROVE  SoundInv'
  <2>1. PICK id \in TopicId \ {0} : id = AllocTopicId(DOMAIN m_regInfosRevMap)
    BY <1>4, AllocType DEF MapNewTopic
  <2>2. PICK n \in Node : PushBack(n, topic, id, "Normal", m_regInfos,
                                    m_regInfosMap, m_regInfosRevMap)
    BY <1>4, <2>1 DEF MapNewTopic
  <2>3. DOMAIN told' \subseteq TopicId /\ told' \in [DOMAIN told' -> Topic]
    BY <1>4, <2>1 DEF MapNewTopic, With, TypeOK
  <2>4. UNCHANGED <<m_minTopicId, m_maxTopicId, evicted, fault>>
    BY <1>4 DEF MapNewTopic, range
  <2> QED
    <3>1. Structure(m_regInfos', m_regInfosMap', m_regInfosRevMap')
      BY <2>1, <2>2, <1>10, PushBackSound
    <3> QED
      BY <2>3, <2>4, <3>1 DEF TypeOK, IdIndexSound, Structure
<1>5. ASSUME NEW topic \in Topic, MapReplacingTopic(topic)
      PROVE  SoundInv'
  <2>1. PICK id \in DOMAIN m_regInfosRevMap : id = Smallest(Evictable)
    <3>1. Evictable # {}
      BY <1>5 DEF MapReplacingTopic
    <3> QED
      BY <3>1, EvictedInUse
  <2>2. PICK old : old = m_regInfosRevMap[id]
    OBVIOUS
  <2>3. PICK list, map, rev :
           /\ list = Without(m_regInfos, old)
           /\ map = RemoveFromTopicMap(topic, old)
           /\ rev = Without(m_regInfosRevMap, id)
    OBVIOUS
  <2>4. PICK n \in Node : PushBack(n, topic, id, "Normal", list, map, rev)
    BY <1>5, <2>1, <2>2, <2>3 DEF MapReplacingTopic
  <2>5. /\ DOMAIN list = DOMAIN m_regInfos \ {old}
        /\ list \in [DOMAIN list -> RegInfo]
        /\ \A k \in DOMAIN list : list[k] = m_regInfos[k]
    BY <2>3 DEF Without, TypeOK
  <2>6. DOMAIN map \subseteq Topic /\ map \in [DOMAIN map -> Node]
    BY <2>3 DEF RemoveFromTopicMap, Without, TypeOK
  <2>7. /\ DOMAIN rev = DOMAIN m_regInfosRevMap \ {id}
        /\ rev \in [DOMAIN rev -> Node]
        /\ \A i \in DOMAIN rev : rev[i] = m_regInfosRevMap[i]
    BY <2>3 DEF Without, TypeOK
  <2>8. \A i \in DOMAIN rev : rev[i] \in DOMAIN list /\ list[rev[i]].id = i
    BY <2>1, <2>2, <2>5, <2>7 DEF IdIndexSound
  <2>9. DOMAIN told' \subseteq TopicId /\ told' \in [DOMAIN told' -> Topic]
    BY <1>5, <2>1 DEF MapReplacingTopic, With, TypeOK
  <2>10. UNCHANGED <<m_minTopicId, m_maxTopicId, fault>> /\ evicted' = TRUE
    BY <1>5 DEF MapReplacingTopic, range
  <2> QED
    <3>1. id \in TopicId \ {0} /\ Structure(list, map, rev)
      BY <2>1, <2>5, <2>6, <2>7, <2>8 DEF TypeOK, Structure
    <3>2. Structure(m_regInfos', m_regInfosMap', m_regInfosRevMap')
      BY <2>4, <3>1, PushBackSound
    <3> QED
      BY <2>9, <2>10, <3>2 DEF TypeOK, IdIndexSound, Structure
<1>6. ASSUME NEW topic \in Topic, MapTopicFault(topic)
      PROVE  SoundInv'
  BY <1>6 DEF MapTopicFault, indices, range, TypeOK, IdIndexSound
<1>7. ASSUME NEW id \in TopicId, DiscardRegistration(id)
      PROVE  SoundInv'
  <2>1. id \in DOMAIN m_regInfosRevMap /\ UNCHANGED <<m_minTopicId, m_maxTopicId, evicted>>
    BY <1>7 DEF DiscardRegistration, range
  <2>2. PICK n, topic : n = m_regInfosRevMap[id] /\ topic = m_regInfos[n].topic
    OBVIOUS
  <2>3. CASE topic \in DOMAIN m_regInfosMap
    <3>1. /\ m_regInfosMap' = Without(m_regInfosMap, topic)
          /\ m_regInfosRevMap' = Without(m_regInfosRevMap, id)
          /\ m_regInfos' = Without(m_regInfos, n)
          /\ told' = Without(told, id)
          /\ UNCHANGED fault
      BY <1>7, <2>2, <2>3 DEF DiscardRegistration
    <3>2. /\ DOMAIN m_regInfos' = DOMAIN m_regInfos \ {n}
          /\ m_regInfos' \in [DOMAIN m_regInfos' -> RegInfo]
          /\ \A k \in DOMAIN m_regInfos' : m_regInfos'[k] = m_regInfos[k]
      BY <3>1 DEF Without, TypeOK
    <3>3. /\ DOMAIN m_regInfosRevMap' = DOMAIN m_regInfosRevMap \ {id}
          /\ m_regInfosRevMap' \in [DOMAIN m_regInfosRevMap' -> Node]
          /\ \A i \in DOMAIN m_regInfosRevMap' : m_regInfosRevMap'[i] = m_regInfosRevMap[i]
      BY <3>1 DEF Without, TypeOK
    <3>4. DOMAIN m_regInfosMap' \subseteq Topic /\ m_regInfosMap' \in [DOMAIN m_regInfosMap' -> Node]
      BY <3>1 DEF Without, TypeOK
    <3>5. DOMAIN told' \subseteq TopicId /\ told' \in [DOMAIN told' -> Topic]
      BY <3>1 DEF Without, TypeOK
    <3>6. IdIndexSound'
      BY <2>1, <2>2, <3>2, <3>3 DEF IdIndexSound
    <3> QED
      BY <2>1, <3>1, <3>2, <3>3, <3>4, <3>5, <3>6 DEF TypeOK
  <2>4. CASE topic \notin DOMAIN m_regInfosMap
    <3>1. fault' = TRUE /\ UNCHANGED <<m_regInfosMap, m_regInfosRevMap, m_regInfos, told>>
      BY <1>7, <2>2, <2>4 DEF DiscardRegistration
    <3> QED
      BY <2>1, <3>1 DEF TypeOK, IdIndexSound
  <2> QED
    BY <2>3, <2>4
<1>8. ASSUME ClearRegistrations
      PROVE  SoundInv'
  <2>1. PICK live, ids :
           /\ live = {n \in DOMAIN m_regInfos : m_regInfos[n].type = "Predefined"}
           /\ ids = {m_regInfos[n].id : n \in live}
    OBVIOUS
  <2>2. PICK topics : topics = {m_regInfos[n].topic : n \in live}
    OBVIOUS
  <2>3. /\ m_regInfos' = Restrict(m_regInfos, live)
        /\ told' = Restrict(told, ids \cap DOMAIN told)
        /\ UNCHANGED <<m_minTopicId, m_maxTopicId, evicted, fault>>
        /\ m_regInfosMap' \in [topics -> live]
        /\ m_regInfosRevMap' \in [ids -> live]
        /\ \A i \in ids : m_regInfos[m_regInfosRevMap'[i]].id = i
    BY <1>8, <2>1, <2>2 DEF ClearRegistrations, range
  <2>4. /\ DOMAIN m_regInfos' = live /\ live \subseteq Node
        /\ m_regInfos' \in [live -> RegInfo]
        /\ \A n \in live : m_regInfos'[n] = m_regInfos[n]
    BY <2>1, <2>3 DEF Restrict, TypeOK
  <2>5. \A n \in DOMAIN m_regInfos :
           m_regInfos[n].topic \in Topic /\ m_regInfos[n].id \in TopicId \ {0}
    BY DEF TypeOK, RegInfo
  <2>6. topics \subseteq Topic
    BY <2>1, <2>2, <2>5
  <2>7. ids \subseteq TopicId \ {0}
    BY <2>1, <2>5
  <2>8. told' \in [ids \cap DOMAIN told -> Topic]
    BY <2>3 DEF Restrict, TypeOK
  <2> QED
    BY <2>3, <2>4, <2>6, <2>7, <2>8 DEF TypeOK, IdIndexSound
<1>9. CASE UNCHANGED vars
  BY <1>9 DEF vars, indices, range, TypeOK, IdIndexSound
<1> QED
  BY <1>1, <1>2, <1>3, <1>4, <1>5, <1>6, <1>7, <1>8, <1>9 DEF Next, MapTopic

\* The types of RegMgr's fields hold for any number of topics, cells and ids.
THEOREM TypesHold == Spec => []TypeOK
<1>1. Init => SoundInv  BY InitSound
<1>2. SoundInv /\ [Next]_vars => SoundInv'  BY NextSound
<1>3. SoundInv => TypeOK  BY DEF SoundInv
<1> QED  BY <1>1, <1>2, <1>3, PTL DEF Spec

\* mapTopicId and the search for a replaceable registration never follow the id
\* index to an erased cell or to one with another id (RegMgr.cpp:153-163, 207).
THEOREM IdIndexHolds == Spec => []IdIndexSound
<1>1. Init => SoundInv  BY InitSound
<1>2. SoundInv /\ [Next]_vars => SoundInv'  BY NextSound
<1>3. SoundInv => IdIndexSound  BY DEF SoundInv
<1> QED  BY <1>1, <1>2, <1>3, PTL DEF Spec

-----------------------------------------------------------------------------
(* Topic ids are unique when allocation starts at 1. *)

RangesStartLow == \A r \in Ranges : r[1] <= 1

\* Every registration is the one its id leads to.
IdsIndexed ==
    \A n \in DOMAIN m_regInfos :
        /\ m_regInfos[n].id \in DOMAIN m_regInfosRevMap
        /\ m_regInfosRevMap[m_regInfos[n].id] = n

UniqueInv == SoundInv /\ m_minTopicId = 1 /\ IdsIndexed

\* A new cell whose id was not in use keeps ids unique.
LEMMA PushBackUnique ==
    ASSUME NEW n \in Node, NEW topic \in Topic, NEW id \in TopicId \ {0},
           NEW type \in {"Normal", "Predefined"},
           NEW STATE list, NEW STATE map, NEW STATE rev,
           Structure(list, map, rev), PushBack(n, topic, id, type, list, map, rev),
           id \notin DOMAIN rev,
           \A k \in DOMAIN list : list[k].id \in DOMAIN rev /\ rev[list[k].id] = k
    PROVE  IdsIndexed'
<1>1. /\ DOMAIN m_regInfos' = DOMAIN list \cup {n}
      /\ m_regInfos'[n] = [topic |-> topic, id |-> id, type |-> type]
      /\ \A k \in DOMAIN list : m_regInfos'[k] = list[k]
      /\ DOMAIN m_regInfosRevMap' = DOMAIN rev \cup {id}
      /\ \A i \in DOMAIN rev : m_regInfosRevMap'[i] = rev[i]
      /\ m_regInfosRevMap'[id] = n
  <2> DEFINE info == [topic |-> topic, id |-> id, type |-> type]
  <2>1. m_regInfos' = With(list, n, info) /\ m_regInfosRevMap' = MapInsert(rev, id, n)
    BY DEF PushBack
  <2> HIDE DEF info
  <2>2. /\ DOMAIN m_regInfos' = DOMAIN list \cup {n}
        /\ m_regInfos'[n] = info
        /\ \A k \in DOMAIN list : k # n => m_regInfos'[k] = list[k]
    BY <2>1 DEF With
  <2>3. n \notin DOMAIN list
    BY DEF PushBack
  <2> QED
    BY <2>1, <2>2, <2>3 DEF info, MapInsert, With
<1> QED
  BY <1>1 DEF IdsIndexed

LEMMA NextUnique == RangesStartLow /\ UniqueInv /\ [Next]_vars => UniqueInv'
<1> SUFFICES ASSUME RangesStartLow, UniqueInv, [Next]_vars PROVE UniqueInv'
  OBVIOUS
<1>1. SoundInv'
  BY NextSound DEF UniqueInv
<1>2. Structure(m_regInfos, m_regInfosMap, m_regInfosRevMap) /\ TypeOK /\ m_minTopicId = 1
  BY DEF UniqueInv, SoundInv, TypeOK, IdIndexSound, Structure
<1>3. \A k \in DOMAIN m_regInfos : /\ m_regInfos[k].id \in DOMAIN m_regInfosRevMap
                                  /\ m_regInfosRevMap[m_regInfos[k].id] = k
  BY DEF UniqueInv, IdsIndexed
<1>4. ASSUME NEW r \in Ranges, SetTopicIdAllocationRange(r[1], r[2])
      PROVE  UniqueInv'
  <2>1. PICK lo \in Nat : lo = r[1] /\ lo <= 1
    BY RegMgrAssumption DEF RangesStartLow, TopicId
  <2>2. m_minTopicId' = Largest({lo, 1})
    BY <1>4, <2>1 DEF SetTopicIdAllocationRange, DefaultMinTopicId
  <2>3. m_minTopicId' = 1
    BY <2>1, <2>2, OfTwo
  <2> QED
    BY <1>1, <1>3, <1>4, <2>3 DEF UniqueInv, IdsIndexed, SetTopicIdAllocationRange, indices
<1>5. ASSUME NEW topic \in Topic, NEW id \in PredefinedIds, RegPredefined(topic, id)
      PROVE  UniqueInv'
  <2>1. id \in TopicId \ {0} /\ m_minTopicId' = 1
    BY <1>2, <1>5, RegMgrAssumption DEF RegPredefined, range
  <2>2. CASE /\ id \notin DOMAIN m_regInfosRevMap
             /\ \E n \in Node : PushBack(n, topic, id, "Predefined", m_regInfos,
                                         m_regInfosMap, m_regInfosRevMap)
    BY <1>1, <1>2, <1>3, <2>1, <2>2, PushBackUnique DEF UniqueInv
  <2>3. CASE /\ m_regInfos' = [m_regInfos EXCEPT ![m_regInfosMap[topic]].type = "Predefined"]
             /\ UNCHANGED <<m_regInfosMap, m_regInfosRevMap>>
    <3>1. /\ DOMAIN m_regInfos' = DOMAIN m_regInfos
          /\ \A n \in DOMAIN m_regInfos : m_regInfos'[n].id = m_regInfos[n].id
      BY <1>2, <2>3 DEF Structure, RegInfo
    <3> QED
      BY <1>1, <1>3, <2>1, <2>3, <3>1 DEF UniqueInv, IdsIndexed
  <2> QED
    BY <1>5, <2>2, <2>3 DEF RegPredefined
<1>6. ASSUME NEW topic \in Topic, MapNewTopic(topic)
      PROVE  UniqueInv'
  <2>1. PICK id \in TopicId \ {0} : id = AllocTopicId(DOMAIN m_regInfosRevMap)
    BY <1>2, <1>6, AllocType DEF MapNewTopic
  <2>2. PICK n \in Node : PushBack(n, topic, id, "Normal", m_regInfos,
                                    m_regInfosMap, m_regInfosRevMap)
    BY <1>6, <2>1 DEF MapNewTopic
  <2>3. id \notin DOMAIN m_regInfosRevMap
    <3>1. CASE DOMAIN m_regInfos = {}
      BY <1>2, <3>1 DEF Structure
    <3>2. CASE DOMAIN m_regInfos # {}
      BY <1>2, <1>6, <2>1, <3>2, AllocFresh DEF MapNewTopic
    <3> QED
      BY <3>1, <3>2
  <2>4. IdsIndexed'
    BY <1>2, <1>3, <2>1, <2>2, <2>3, PushBackUnique
  <2> QED
    BY <1>1, <1>2, <1>6, <2>4 DEF UniqueInv, MapNewTopic, range
<1>7. ASSUME NEW topic \in Topic, MapReplacingTopic(topic)
      PROVE  UniqueInv'
  <2>1. PICK id \in DOMAIN m_regInfosRevMap : id = Smallest(Evictable)
    <3>1. Evictable # {}
      BY <1>7 DEF MapReplacingTopic
    <3> QED
      BY <1>2, <3>1, EvictedInUse
  <2>2. PICK old, list, map, rev :
           /\ old = m_regInfosRevMap[id]
           /\ list = Without(m_regInfos, old)
           /\ map = RemoveFromTopicMap(topic, old)
           /\ rev = Without(m_regInfosRevMap, id)
    OBVIOUS
  <2>3. PICK n \in Node : PushBack(n, topic, id, "Normal", list, map, rev)
    BY <1>7, <2>1, <2>2 DEF MapReplacingTopic
  <2>4. /\ DOMAIN list = DOMAIN m_regInfos \ {old}
        /\ list \in [DOMAIN list -> RegInfo]
        /\ \A k \in DOMAIN list : list[k] = m_regInfos[k]
    BY <1>2, <2>2 DEF Without, Structure
  <2>5. DOMAIN map \subseteq Topic /\ map \in [DOMAIN map -> Node]
    BY <1>2, <2>2 DEF RemoveFromTopicMap, Without, Structure
  <2>6. /\ DOMAIN rev = DOMAIN m_regInfosRevMap \ {id}
        /\ rev \in [DOMAIN rev -> Node]
        /\ \A i \in DOMAIN rev : rev[i] = m_regInfosRevMap[i]
    BY <1>2, <2>2 DEF Without, Structure
  <2>7. \A i \in DOMAIN rev : rev[i] \in DOMAIN list /\ list[rev[i]].id = i
    BY <1>2, <2>1, <2>2, <2>4, <2>6 DEF Structure
  <2>8. Structure(list, map, rev) /\ id \in TopicId \ {0}
    BY <1>2, <2>1, <2>4, <2>5, <2>6, <2>7 DEF Structure
  <2>9. \A k \in DOMAIN list : list[k].id \in DOMAIN rev /\ rev[list[k].id] = k
    BY <1>3, <2>2, <2>4, <2>6
  <2>10. IdsIndexed'
    BY <2>3, <2>6, <2>8, <2>9, PushBackUnique
  <2> QED
    BY <1>1, <1>2, <1>7, <2>10 DEF UniqueInv, MapReplacingTopic, range
<1>8. ASSUME NEW id \in TopicId, DiscardRegistration(id)
      PROVE  UniqueInv'
  <2>1. m_minTopicId' = 1 /\ id \in DOMAIN m_regInfosRevMap
    BY <1>2, <1>8 DEF DiscardRegistration, range
  <2>2. CASE UNCHANGED <<m_regInfosRevMap, m_regInfos>>
    BY <1>1, <1>3, <2>1, <2>2 DEF UniqueInv, IdsIndexed
  <2>3. CASE /\ m_regInfosRevMap' = Without(m_regInfosRevMap, id)
             /\ m_regInfos' = Without(m_regInfos, m_regInfosRevMap[id])
    <3>1. /\ DOMAIN m_regInfos' = DOMAIN m_regInfos \ {m_regInfosRevMap[id]}
          /\ \A k \in DOMAIN m_regInfos' : m_regInfos'[k] = m_regInfos[k]
      BY <2>3 DEF Without
    <3>2. /\ DOMAIN m_regInfosRevMap' = DOMAIN m_regInfosRevMap \ {id}
          /\ \A i \in DOMAIN m_regInfosRevMap' : m_regInfosRevMap'[i] = m_regInfosRevMap[i]
      BY <2>3 DEF Without
    <3> QED
      BY <1>1, <1>3, <2>1, <3>1, <3>2 DEF UniqueInv, IdsIndexed
  <2> QED
    BY <1>8, <2>2, <2>3 DEF DiscardRegistration
<1>9. ASSUME ClearRegistrations
      PROVE  UniqueInv'
  <2>1. PICK live, ids :
           /\ live = {n \in DOMAIN m_regInfos : m_regInfos[n].type = "Predefined"}
           /\ ids = {m_regInfos[n].id : n \in live}
    OBVIOUS
  <2>2. /\ m_regInfos' = Restrict(m_regInfos, live)
        /\ UNCHANGED m_minTopicId
        /\ m_regInfosRevMap' \in [ids -> live]
        /\ \A i \in ids : m_regInfos[m_regInfosRevMap'[i]].id = i
    BY <1>9, <2>1 DEF ClearRegistrations, range
  <2>3. DOMAIN m_regInfos' = live /\ \A n \in live : m_regInfos'[n] = m_regInfos[n]
    BY <2>1, <2>2 DEF Restrict
  <2>4. ASSUME NEW n \in live
        PROVE  m_regInfos[n].id \in ids /\ m_regInfosRevMap'[m_regInfos[n].id] = n
    <3>1. m_regInfos[n].id \in ids /\ n \in DOMAIN m_regInfos
      BY <2>1
    <3>2. PICK k \in live : k = m_regInfosRevMap'[m_regInfos[n].id]
      BY <2>2, <3>1
    <3>3. m_regInfos[k].id = m_regInfos[n].id /\ k \in DOMAIN m_regInfos
      BY <2>1, <2>2, <3>1, <3>2
    <3> QED
      BY <1>3, <3>1, <3>2, <3>3
  <2>5. IdsIndexed'
    BY <2>2, <2>3, <2>4 DEF IdsIndexed
  <2> QED
    BY <1>1, <1>2, <2>2, <2>5 DEF UniqueInv
<1>10. CASE UNCHANGED <<indices, range>>
  BY <1>1, <1>2, <1>3, <1>10 DEF UniqueInv, IdsIndexed, indices, range
<1> QED
  BY <1>4, <1>5, <1>6, <1>7, <1>8, <1>9, <1>10
  DEF Next, MapTopic, MapKnownTopic, MapTopicFault, vars

\* Two live registrations never share a topic id, even after replacements, if
\* every configured range starts at 1: the gap mapTopic finds is then a free id.
THEOREM UniqueIdsHold == RangesStartLow => (Spec => []UniqueIds)
<1> SUFFICES ASSUME RangesStartLow PROVE Spec => []UniqueIds
  OBVIOUS
<1>1. Init => UniqueInv
  <2> SUFFICES ASSUME Init PROVE UniqueInv
    OBVIOUS
  <2>1. DOMAIN m_regInfos = {}
    BY DEF Init
  <2> QED
    BY <2>1, InitSound DEF UniqueInv, IdsIndexed, Init, DefaultMinTopicId
<1>2. UniqueInv /\ [Next]_vars => UniqueInv'
  BY NextUnique
<1>3. UniqueInv => UniqueIds
  BY DEF UniqueInv, IdsIndexed, UniqueIds
<1> QED
  BY <1>1, <1>2, <1>3, PTL DEF Spec

-----------------------------------------------------------------------------
(* Until a registration is replaced, the registry is one-to-one. *)

StableInv == UniqueInv /\ ConsistentUntilEviction /\ AnnouncedIdsStable

\* A new cell with a new topic and a new id, announced at once.
LEMMA PushBackConsistent ==
    ASSUME NEW n \in Node, NEW topic \in Topic, NEW id \in TopicId \ {0},
           NEW type \in {"Normal", "Predefined"},
           UniqueInv, UniqueInv', Consistent, AnnouncedIdsStable, ~ evicted,
           PushBack(n, topic, id, type, m_regInfos, m_regInfosMap, m_regInfosRevMap),
           topic \notin DOMAIN m_regInfosMap, id \notin DOMAIN m_regInfosRevMap,
           told' = With(told, id, topic)
    PROVE  Consistent' /\ AnnouncedIdsStable'
<1> DEFINE info == [topic |-> topic, id |-> id, type |-> type]
<1>1. /\ n \notin DOMAIN m_regInfos
      /\ m_regInfos' = With(m_regInfos, n, info)
      /\ m_regInfosMap' = With(m_regInfosMap, topic, n)
      /\ m_regInfosRevMap' = With(m_regInfosRevMap, id, n)
  BY DEF PushBack, MapInsert
<1>2. info.topic = topic /\ info.id = id
  OBVIOUS
<1> HIDE DEF info
<1>3. /\ DOMAIN m_regInfos' = DOMAIN m_regInfos \cup {n}
      /\ m_regInfos'[n] = info
      /\ \A k \in DOMAIN m_regInfos : m_regInfos'[k] = m_regInfos[k]
  BY <1>1 DEF With
<1>4. /\ DOMAIN m_regInfosMap' = DOMAIN m_regInfosMap \cup {topic}
      /\ m_regInfosMap'[topic] = n
      /\ \A t \in DOMAIN m_regInfosMap : m_regInfosMap'[t] = m_regInfosMap[t]
  BY <1>1 DEF With
<1>5. /\ DOMAIN m_regInfosRevMap' = DOMAIN m_regInfosRevMap \cup {id}
      /\ m_regInfosRevMap'[id] = n
      /\ \A i \in DOMAIN m_regInfosRevMap : m_regInfosRevMap'[i] = m_regInfosRevMap[i]
  BY <1>1 DEF With
<1>6. /\ DOMAIN told' = DOMAIN told \cup {id}
      /\ told'[id] = topic
      /\ \A i \in DOMAIN told : i # id => told'[i] = told[i]
  BY DEF With
<1>7. TopicIndexSound'
  BY <1>2, <1>3, <1>4 DEF TopicIndexSound, Consistent
<1>8. Indexed'
  BY <1>2, <1>3, <1>4, <1>5 DEF Indexed, Consistent
<1>9. AnnouncedIdsStable'
  BY <1>2, <1>3, <1>5, <1>6 DEF AnnouncedIdsStable, Consistent, IdIndexSound
<1> QED
  BY <1>7, <1>8, <1>9 DEF Consistent, UniqueInv, SoundInv

LEMMA NextStable == RangesStartLow /\ StableInv /\ [Next]_vars => StableInv'
<1> SUFFICES ASSUME RangesStartLow, StableInv, [Next]_vars PROVE StableInv'
  OBVIOUS
<1>1. UniqueInv /\ UniqueInv' /\ TypeOK /\ IdIndexSound'
  BY NextUnique DEF StableInv, UniqueInv, SoundInv
<1>2. CASE evicted'
  BY <1>1, <1>2 DEF StableInv, ConsistentUntilEviction, AnnouncedIdsStable
<1>3. CASE ~ evicted'
  <2>1. ~ evicted
    BY <1>3 DEF Next, vars, SetTopicIdAllocationRange, RegPredefined, MapTopic, MapKnownTopic,
           MapNewTopic, MapReplacingTopic, MapTopicFault, DiscardRegistration, ClearRegistrations
  <2>2. Consistent /\ AnnouncedIdsStable
    BY <2>1 DEF StableInv, ConsistentUntilEviction
  <2> SUFFICES Consistent' /\ AnnouncedIdsStable'
    BY <1>1 DEF StableInv, ConsistentUntilEviction
  <2>3. CASE UNCHANGED <<indices, told>>
    BY <2>1, <2>2, <2>3 DEF Consistent, AnnouncedIdsStable, TopicIndexSound, IdIndexSound,
                            Indexed, indices
  <2>4. ASSUME NEW topic \in Topic, NEW id \in PredefinedIds, RegPredefined(topic, id)
        PROVE  Consistent' /\ AnnouncedIdsStable'
    <3>1. id \in TopicId \ {0} /\ told' = With(told, id, topic)
      BY <2>4, RegMgrAssumption DEF RegPredefined
    <3>2. CASE /\ topic \notin DOMAIN m_regInfosMap
               /\ id \notin DOMAIN m_regInfosRevMap
               /\ \E n \in Node : PushBack(n, topic, id, "Predefined", m_regInfos,
                                           m_regInfosMap, m_regInfosRevMap)
      BY <1>1, <2>1, <2>2, <3>1, <3>2, PushBackConsistent
    <3>3. CASE /\ topic \in DOMAIN m_regInfosMap
               /\ id \in DOMAIN m_regInfosRevMap
               /\ m_regInfosMap[topic] = m_regInfosRevMap[id]
               /\ m_regInfos[m_regInfosMap[topic]].topic = topic
               /\ m_regInfos' = [m_regInfos EXCEPT ![m_regInfosMap[topic]].type = "Predefined"]
               /\ UNCHANGED <<m_regInfosMap, m_regInfosRevMap>>
      <4>1. /\ DOMAIN m_regInfos' = DOMAIN m_regInfos
            /\ \A n \in DOMAIN m_regInfos : /\ m_regInfos'[n].id = m_regInfos[n].id
                                            /\ m_regInfos'[n].topic = m_regInfos[n].topic
        BY <1>1, <3>3 DEF TypeOK, RegInfo
      <4>2. TopicIndexSound' /\ Indexed'
        BY <2>2, <3>3, <4>1 DEF TopicIndexSound, Indexed, Consistent
      <4>3. /\ DOMAIN told' = DOMAIN told \cup {id}
            /\ told'[id] = topic
            /\ \A i \in DOMAIN told : i # id => told'[i] = told[i]
        BY <3>1 DEF With
      <4>4. AnnouncedIdsStable'
        BY <2>1, <2>2, <3>3, <4>1, <4>3 DEF AnnouncedIdsStable, Consistent, IdIndexSound
      <4> QED
        BY <1>1, <4>2, <4>4 DEF Consistent
    <3> QED
      BY <2>4, <3>2, <3>3 DEF RegPredefined
  <2>5. ASSUME NEW topic \in Topic, MapKnownTopic(topic)
        PROVE  Consistent' /\ AnnouncedIdsStable'
    <3>1. PICK n \in DOMAIN m_regInfos : /\ n = m_regInfosMap[topic]
                                         /\ m_regInfos[n].topic = topic
      BY <2>2, <2>5 DEF MapKnownTopic, Consistent, TopicIndexSound
    <3>2. told' = With(told, m_regInfos[n].id, topic)
      BY <2>5, <3>1 DEF MapKnownTopic
    <3>3. /\ DOMAIN told' = DOMAIN told \cup {m_regInfos[n].id}
          /\ told'[m_regInfos[n].id] = topic
          /\ \A i \in DOMAIN told : i # m_regInfos[n].id => told'[i] = told[i]
      BY <3>2 DEF With
    <3>4. UNCHANGED indices
      BY <2>5 DEF MapKnownTopic
    <3>5. Consistent'
      BY <2>2, <3>4 DEF Consistent, TopicIndexSound, IdIndexSound, Indexed, indices
    <3>6. AnnouncedIdsStable'
      BY <2>1, <2>2, <3>1, <3>3, <3>4 DEF AnnouncedIdsStable, Consistent, Indexed, indices
    <3> QED
      BY <3>5, <3>6
  <2>6. ASSUME NEW topic \in Topic, MapNewTopic(topic)
        PROVE  Consistent' /\ AnnouncedIdsStable'
    <3>1. Structure(m_regInfos, m_regInfosMap, m_regInfosRevMap) /\ m_minTopicId = 1
      BY <1>1 DEF UniqueInv, SoundInv, TypeOK, IdIndexSound, Structure
    <3>2. PICK id \in TopicId \ {0} : id = AllocTopicId(DOMAIN m_regInfosRevMap)
      BY <1>1, <2>6, <3>1, AllocType DEF MapNewTopic
    <3>3. PICK n \in Node : PushBack(n, topic, id, "Normal", m_regInfos,
                                      m_regInfosMap, m_regInfosRevMap)
      BY <2>6, <3>2 DEF MapNewTopic
    <3>4. CASE DOMAIN m_regInfos = {}
      <4>1. id \notin DOMAIN m_regInfosRevMap
        BY <3>1, <3>4 DEF Structure
      <4> QED
        BY <1>1, <2>1, <2>2, <2>6, <3>2, <3>3, <4>1, PushBackConsistent DEF MapNewTopic
    <3>5. CASE DOMAIN m_regInfos # {}
      <4>1. id \notin DOMAIN m_regInfosRevMap
        BY <1>1, <2>6, <3>1, <3>2, <3>5, AllocFresh DEF MapNewTopic
      <4> QED
        BY <1>1, <2>1, <2>2, <2>6, <3>2, <3>3, <4>1, PushBackConsistent DEF MapNewTopic
    <3> QED
      BY <3>4, <3>5
  <2>7. ASSUME NEW id \in TopicId, DiscardRegistration(id)
        PROVE  Consistent' /\ AnnouncedIdsStable'
    <3>1. PICK n, topic : n = m_regInfosRevMap[id] /\ topic = m_regInfos[n].topic
      OBVIOUS
    <3>2. /\ n \in DOMAIN m_regInfos /\ m_regInfos[n].id = id
          /\ topic \in DOMAIN m_regInfosMap /\ m_regInfosMap[topic] = n
      BY <2>2, <2>7, <3>1 DEF DiscardRegistration, Consistent, IdIndexSound, Indexed
    <3>3. /\ m_regInfosMap' = Without(m_regInfosMap, topic)
          /\ m_regInfosRevMap' = Without(m_regInfosRevMap, id)
          /\ m_regInfos' = Without(m_regInfos, n)
          /\ told' = Without(told, id)
      BY <2>7, <3>1, <3>2 DEF DiscardRegistration
    <3>4. /\ DOMAIN m_regInfosMap' = DOMAIN m_regInfosMap \ {topic}
          /\ \A t \in DOMAIN m_regInfosMap' : m_regInfosMap'[t] = m_regInfosMap[t]
      BY <3>3 DEF Without
    <3>5. /\ DOMAIN m_regInfosRevMap' = DOMAIN m_regInfosRevMap \ {id}
          /\ \A i \in DOMAIN m_regInfosRevMap' : m_regInfosRevMap'[i] = m_regInfosRevMap[i]
      BY <3>3 DEF Without
    <3>6. /\ DOMAIN m_regInfos' = DOMAIN m_regInfos \ {n}
          /\ \A k \in DOMAIN m_regInfos' : m_regInfos'[k] = m_regInfos[k]
      BY <3>3 DEF Without
    <3>7. /\ DOMAIN told' = DOMAIN told \ {id}
          /\ \A i \in DOMAIN told' : told'[i] = told[i]
      BY <3>3 DEF Without
    <3>8. TopicIndexSound'
      BY <2>2, <3>1, <3>2, <3>4, <3>6 DEF TopicIndexSound, Consistent
    <3>9. Indexed'
      BY <2>2, <3>1, <3>2, <3>4, <3>5, <3>6 DEF Indexed, Consistent
    <3>10. AnnouncedIdsStable'
      BY <2>1, <2>2, <3>1, <3>2, <3>5, <3>6, <3>7
      DEF AnnouncedIdsStable, Consistent, IdIndexSound
    <3> QED
      BY <1>1, <3>8, <3>9, <3>10 DEF Consistent
  <2>8. ASSUME ClearRegistrations
        PROVE  Consistent' /\ AnnouncedIdsStable'
    <3>1. PICK live, topics, ids :
             /\ live = {n \in DOMAIN m_regInfos : m_regInfos[n].type = "Predefined"}
             /\ topics = {m_regInfos[n].topic : n \in live}
             /\ ids = {m_regInfos[n].id : n \in live}
      OBVIOUS
    <3>2. /\ m_regInfos' = Restrict(m_regInfos, live)
          /\ m_regInfosMap' \in [topics -> live]
          /\ m_regInfosRevMap' \in [ids -> live]
          /\ \A t \in topics : m_regInfos[m_regInfosMap'[t]].topic = t
          /\ \A i \in ids : m_regInfos[m_regInfosRevMap'[i]].id = i
          /\ told' = Restrict(told, ids \cap DOMAIN told)
      BY <2>8, <3>1 DEF ClearRegistrations
    <3>3. /\ DOMAIN m_regInfos' = live
          /\ \A n \in live : n \in DOMAIN m_regInfos /\ m_regInfos'[n] = m_regInfos[n]
          /\ DOMAIN told' = ids \cap DOMAIN told
          /\ \A i \in DOMAIN told' : told'[i] = told[i]
      BY <3>1, <3>2 DEF Restrict
    <3>4. ASSUME NEW n \in live
          PROVE  m_regInfos[n].topic \in topics /\ m_regInfosMap'[m_regInfos[n].topic] = n
      <4>1. m_regInfos[n].topic \in topics
        BY <3>1
      <4>2. PICK k \in live : k = m_regInfosMap'[m_regInfos[n].topic]
        BY <3>2, <4>1
      <4>3. m_regInfos[k].topic = m_regInfos[n].topic
        BY <3>2, <4>1, <4>2
      <4> QED
        BY <2>2, <3>3, <4>1, <4>2, <4>3 DEF Consistent, Indexed
    <3>5. ASSUME NEW i \in ids
          PROVE  /\ m_regInfosRevMap'[i] \in live
                 /\ i \in DOMAIN m_regInfosRevMap
                 /\ m_regInfosRevMap'[i] = m_regInfosRevMap[i]
      <4>1. PICK k \in live : k = m_regInfosRevMap'[i] /\ m_regInfos[k].id = i
        BY <3>2
      <4> QED
        BY <2>2, <3>3, <4>1 DEF Consistent, Indexed
    <3>6. TopicIndexSound'
      BY <3>2, <3>3 DEF TopicIndexSound
    <3>7. Indexed'
      <4>1. IdsIndexed'
        BY <1>1 DEF UniqueInv
      <4> QED
        BY <3>2, <3>3, <3>4, <4>1 DEF Indexed, IdsIndexed
    <3>8. AnnouncedIdsStable'
      <4> SUFFICES ASSUME NEW i \in DOMAIN told'
                   PROVE  /\ i \in DOMAIN m_regInfosRevMap'
                          /\ m_regInfos'[m_regInfosRevMap'[i]].topic = told'[i]
        BY DEF AnnouncedIdsStable
      <4>1. i \in ids /\ i \in DOMAIN told /\ told'[i] = told[i]
        BY <3>3
      <4>2. m_regInfos[m_regInfosRevMap[i]].topic = told[i]
        BY <2>1, <2>2, <4>1 DEF AnnouncedIdsStable
      <4>3. m_regInfos'[m_regInfosRevMap'[i]] = m_regInfos[m_regInfosRevMap[i]]
        BY <3>3, <3>5, <4>1
      <4> QED
        BY <3>2, <4>1, <4>2, <4>3
    <3> QED
      BY <1>1, <3>6, <3>7, <3>8 DEF Consistent
  <2>9. ASSUME NEW topic \in Topic, MapReplacingTopic(topic)
        PROVE  FALSE
    BY <1>3, <2>9 DEF MapReplacingTopic
  <2> QED
    BY <2>3, <2>4, <2>5, <2>6, <2>7, <2>8, <2>9
    DEF Next, MapTopic, MapTopicFault, SetTopicIdAllocationRange, vars
<1> QED
  BY <1>2, <1>3

LEMMA InitStable == Init => StableInv
<1> SUFFICES ASSUME Init PROVE StableInv
  OBVIOUS
<1>1. /\ DOMAIN m_regInfos = {} /\ DOMAIN m_regInfosMap = {}
      /\ DOMAIN m_regInfosRevMap = {} /\ DOMAIN told = {} /\ m_minTopicId = 1
  BY DEF Init, DefaultMinTopicId
<1> QED
  BY <1>1, InitSound
  DEF StableInv, UniqueInv, SoundInv, IdsIndexed, ConsistentUntilEviction, Consistent,
      TopicIndexSound, IdIndexSound, Indexed, AnnouncedIdsStable

\* The list and its two indices stay one-to-one until a full range forces
\* mapTopic to replace a registration, for any mix of predefined and allocated
\* ids, discards and clears, if every configured range starts at 1.
THEOREM ConsistentUntilEvictionHolds == RangesStartLow => (Spec => []ConsistentUntilEviction)
<1> SUFFICES ASSUME RangesStartLow PROVE Spec => []ConsistentUntilEviction
  OBVIOUS
<1>1. Init => StableInv  BY InitStable
<1>2. StableInv /\ [Next]_vars => StableInv'  BY NextStable
<1>3. StableInv => ConsistentUntilEviction  BY DEF StableInv
<1> QED  BY <1>1, <1>2, <1>3, PTL DEF Spec

\* An id announced in REGISTER, REGACK or SUBACK keeps being translated back to
\* its topic by mapTopicId (RegMgr.cpp:207), under the same conditions.
THEOREM AnnouncedIdsStableHolds == RangesStartLow => (Spec => []AnnouncedIdsStable)
<1> SUFFICES ASSUME RangesStartLow PROVE Spec => []AnnouncedIdsStable
  OBVIOUS
<1>1. Init => StableInv  BY InitStable
<1>2. StableInv /\ [Next]_vars => StableInv'  BY NextStable
<1>3. StableInv => AnnouncedIdsStable  BY DEF StableInv
<1> QED  BY <1>1, <1>2, <1>3, PTL DEF Spec
=============================================================================
