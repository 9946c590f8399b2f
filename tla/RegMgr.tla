------------------------------- MODULE RegMgr -------------------------------
(***************************************************************************)
(* The topic registry of a gateway session (gateway/lib/src/RegMgr.cpp):   *)
(* a list of registrations indexed by topic string and by topic id.  The   *)
(* two indices hold list iterators, so a registration is a heap cell and   *)
(* an index entry is a reference to a cell, which dangles once the cell    *)
(* is erased from the list.                                                *)
(***************************************************************************)
EXTENDS Integers, FiniteSets, Functions

CONSTANTS Topic,        \* topic strings that are not two-character short names
          Node,         \* cells the list may allocate
          MaxTopicId,   \* DefaultMaxTopicId: 0xfffe in the code, small here
          Ranges,       \* <<minVal, maxVal>> pairs the application may configure
          PredefinedIds \* ids the application may pass to regPredefined

\* DefaultMinTopicId and every value a std::uint16_t topic id can take.
DefaultMinTopicId == 1
TopicId == 0 .. MaxTopicId + 1

ASSUME RegMgrAssumption ==
    /\ MaxTopicId \in Nat \ {0}
    /\ Ranges \subseteq TopicId \X TopicId
    /\ PredefinedIds \subseteq TopicId

RegInfo == [topic : Topic, id : TopicId \ {0}, type : {"Normal", "Predefined"}]

VARIABLES m_regInfos,       \* the cells of the list and what each holds
          m_regInfosMap,    \* topic -> cell
          m_regInfosRevMap, \* topic id -> cell
          m_minTopicId, m_maxTopicId,
          told,             \* history: the topic each id was last announced for
          evicted,          \* history: a full range made mapTopic drop an entry
          fault             \* an end() iterator was dereferenced or erased

indices == <<m_regInfos, m_regInfosMap, m_regInfosRevMap>>
range == <<m_minTopicId, m_maxTopicId>>
vars == <<indices, range, told, evicted, fault>>

Smallest(S) == CHOOSE x \in S : \A y \in S : x <= y
Largest(S) == CHOOSE x \in S : \A y \in S : y <= x
Without(f, x) == [y \in DOMAIN f \ {x} |-> f[y]]
With(f, x, v) == [y \in DOMAIN f \cup {x} |-> IF y = x THEN v ELSE f[y]]
\* std::map::insert: an existing key keeps its value.
MapInsert(f, x, v) == IF x \in DOMAIN f THEN f ELSE With(f, x, v)

-----------------------------------------------------------------------------
Init ==
    /\ m_regInfos = << >>
    /\ m_regInfosMap = << >>
    /\ m_regInfosRevMap = << >>
    /\ m_minTopicId = DefaultMinTopicId
    /\ m_maxTopicId = MaxTopicId
    /\ told = << >>
    /\ evicted = FALSE
    /\ fault = FALSE

\* Mutant: the upper limit of the protocol is forgotten.
RangeNotCapped(minVal, maxVal) ==
    /\ minVal <= maxVal
    /\ m_minTopicId' = Largest({minVal, DefaultMinTopicId})
    /\ m_maxTopicId' = maxVal
    /\ UNCHANGED <<indices, told, evicted, fault>>

SetTopicIdAllocationRange(minVal, maxVal) ==
    /\ minVal <= maxVal
    /\ m_minTopicId' = Largest({minVal, DefaultMinTopicId})
    /\ m_maxTopicId' = Smallest({maxVal, MaxTopicId})
    /\ UNCHANGED <<indices, told, evicted, fault>>

\* push_back of a new cell, then an insert into each index.
PushBack(n, topic, id, type, list, map, rev) ==
    /\ n \notin DOMAIN list
    /\ m_regInfos' = With(list, n, [topic |-> topic, id |-> id, type |-> type])
    /\ m_regInfosMap' = MapInsert(map, topic, n)
    /\ m_regInfosRevMap' = MapInsert(rev, id, n)

\* Mutant: a topic id that is already taken is not refused.
RegPredefinedTakenId(topic, id) ==
    /\ id # 0
    /\ topic \notin DOMAIN m_regInfosMap
    /\ \E n \in Node : PushBack(n, topic, id, "Predefined", m_regInfos,
                                m_regInfosMap, m_regInfosRevMap)
    /\ told' = With(told, id, topic)
    /\ UNCHANGED <<range, evicted, fault>>

\* When only one index knows its key the code compares the value of an end()
\* iterator with a valid one; they differ, and the registration is refused.
RegPredefined(topic, id) ==
    /\ id # 0
    /\ \/ /\ topic \notin DOMAIN m_regInfosMap
          /\ id \notin DOMAIN m_regInfosRevMap
          /\ \E n \in Node : PushBack(n, topic, id, "Predefined", m_regInfos,
                                      m_regInfosMap, m_regInfosRevMap)
       \/ /\ topic \in DOMAIN m_regInfosMap
          /\ id \in DOMAIN m_regInfosRevMap
          /\ LET n == m_regInfosMap[topic] IN
             /\ n = m_regInfosRevMap[id]
             /\ m_regInfos[n].topic = topic
             /\ m_regInfos[n].id = id
             /\ m_regInfos' = [m_regInfos EXCEPT ![n].type = "Predefined"]
          /\ UNCHANGED <<m_regInfosMap, m_regInfosRevMap>>
    /\ told' = With(told, id, topic)
    /\ UNCHANGED <<range, evicted, fault>>

-----------------------------------------------------------------------------
\* The loop compares the i-th smallest id in use with i; as 0 is never in use
\* the two are equal exactly when 1..i are all in use.
Gaps(ids) ==
    {i \in 1 .. Cardinality(ids) : /\ ~ (1 .. i \subseteq ids)
                                   /\ m_minTopicId <= i /\ i <= m_maxTopicId}

\* The id a new topic gets, 0 when the range looks full.
AllocTopicId(ids) ==
    IF DOMAIN m_regInfos = {} THEN m_minTopicId
    ELSE IF Largest(ids) < m_maxTopicId THEN Largest({Largest(ids) + 1, m_minTopicId})
    ELSE IF m_minTopicId < Smallest(ids) THEN Smallest({Smallest(ids) - 1, m_maxTopicId})
    ELSE IF Gaps(ids) # {} THEN Smallest(Gaps(ids))
    ELSE 0

\* What find_if may pick for replacement.
Evictable ==
    {id \in DOMAIN m_regInfosRevMap :
        LET info == m_regInfos[m_regInfosRevMap[id]] IN
        /\ info.type # "Predefined"
        /\ m_minTopicId <= info.id
        /\ info.id <= m_maxTopicId}

RemoveFromTopicMap(topic, n) ==
    IF topic \in DOMAIN m_regInfosMap /\ m_regInfosMap[topic] = n
    THEN Without(m_regInfosMap, topic)
    ELSE m_regInfosMap

\* The topic is indexed: its cell is read.  A cell that is no longer in the
\* list is freed memory, and the read may give any id.
MapKnownTopic(topic) ==
    /\ topic \in DOMAIN m_regInfosMap
    /\ LET n == m_regInfosMap[topic] IN
       \E id \in TopicId :
          /\ n \in DOMAIN m_regInfos => id = m_regInfos[n].id
          /\ told' = With(told, id, topic)
    /\ UNCHANGED <<indices, range, evicted, fault>>

\* The registry is not empty but its id index is: rbegin() leads nowhere.
IdIndexLost == DOMAIN m_regInfos # {} /\ DOMAIN m_regInfosRevMap = {}

MapNewTopic(topic) ==
    /\ topic \notin DOMAIN m_regInfosMap
    /\ ~ IdIndexLost
    /\ AllocTopicId(DOMAIN m_regInfosRevMap) # 0
    /\ LET id == AllocTopicId(DOMAIN m_regInfosRevMap) IN
       /\ \E n \in Node : PushBack(n, topic, id, "Normal", m_regInfos,
                                   m_regInfosMap, m_regInfosRevMap)
       /\ told' = With(told, id, topic)
    /\ UNCHANGED <<range, evicted, fault>>

\* Mutant: the replaced cell stays in the list.
ReplacedCellKept(topic) ==
    /\ topic \notin DOMAIN m_regInfosMap
    /\ ~ IdIndexLost
    /\ AllocTopicId(DOMAIN m_regInfosRevMap) = 0
    /\ Evictable # {}
    /\ LET id == Smallest(Evictable) IN
       /\ \E n \in Node :
             PushBack(n, topic, id, "Normal", m_regInfos, m_regInfosMap,
                      Without(m_regInfosRevMap, id))
       /\ told' = With(told, id, topic)
    /\ evicted' = TRUE
    /\ UNCHANGED <<range, fault>>

\* Mutant: the id index keeps its entry for the replaced cell.
ReplacedIdKept(topic) ==
    /\ topic \notin DOMAIN m_regInfosMap
    /\ ~ IdIndexLost
    /\ AllocTopicId(DOMAIN m_regInfosRevMap) = 0
    /\ Evictable # {}
    /\ LET id == Smallest(Evictable)
           old == m_regInfosRevMap[id]
       IN /\ \E n \in Node :
                PushBack(n, topic, id, "Normal", Without(m_regInfos, old),
                         m_regInfosMap, m_regInfosRevMap)
          /\ told' = With(told, id, topic)
    /\ evicted' = TRUE
    /\ UNCHANGED <<range, fault>>

\* The range is full: the lowest replaceable id changes hands.
MapReplacingTopic(topic) ==
    /\ topic \notin DOMAIN m_regInfosMap
    /\ ~ IdIndexLost
    /\ AllocTopicId(DOMAIN m_regInfosRevMap) = 0
    /\ Evictable # {}
    /\ LET id == Smallest(Evictable)
           old == m_regInfosRevMap[id]
       IN /\ \E n \in Node :
                PushBack(n, topic, id, "Normal", Without(m_regInfos, old),
                         RemoveFromTopicMap(topic, old), Without(m_regInfosRevMap, id))
          /\ told' = With(told, id, topic)
    /\ evicted' = TRUE
    /\ UNCHANGED <<range, fault>>

\* Nothing can be replaced: find_if returns end(), which is dereferenced.
MapTopicFault(topic) ==
    /\ topic \notin DOMAIN m_regInfosMap
    /\ \/ IdIndexLost
       \/ ~ IdIndexLost /\ AllocTopicId(DOMAIN m_regInfosRevMap) = 0 /\ Evictable = {}
    /\ fault' = TRUE
    /\ UNCHANGED <<indices, range, told, evicted>>

MapTopic(topic) ==
    \/ MapKnownTopic(topic)
    \/ MapNewTopic(topic)
    \/ MapReplacingTopic(topic)
    \/ MapTopicFault(topic)

-----------------------------------------------------------------------------
\* Mutant: the topic index keeps its entry.
DiscardKeepsTopic(id) ==
    /\ id \in DOMAIN m_regInfosRevMap
    /\ m_regInfosRevMap' = Without(m_regInfosRevMap, id)
    /\ m_regInfos' = Without(m_regInfos, m_regInfosRevMap[id])
    /\ told' = Without(told, id)
    /\ UNCHANGED <<m_regInfosMap, range, evicted, fault>>

DiscardRegistration(id) ==
    /\ id \in DOMAIN m_regInfosRevMap
    /\ LET n == m_regInfosRevMap[id]
           topic == m_regInfos[n].topic
       IN IF topic \in DOMAIN m_regInfosMap
          THEN /\ m_regInfosMap' = Without(m_regInfosMap, topic)
               /\ m_regInfosRevMap' = Without(m_regInfosRevMap, id)
               /\ m_regInfos' = Without(m_regInfos, n)
               /\ told' = Without(told, id)
               /\ UNCHANGED fault
          ELSE /\ fault' = TRUE
               /\ UNCHANGED <<m_regInfosMap, m_regInfosRevMap, m_regInfos, told>>
    /\ UNCHANGED <<range, evicted>>

\* Only predefined topics survive.  The indices are rebuilt from the list; the
\* first cell of a repeated key wins, and the list order is left open.
ClearRegistrations ==
    LET live == {n \in DOMAIN m_regInfos : m_regInfos[n].type = "Predefined"}
        topics == {m_regInfos[n].topic : n \in live}
        ids == {m_regInfos[n].id : n \in live}
    IN /\ live # DOMAIN m_regInfos
       /\ m_regInfos' = Restrict(m_regInfos, live)
       /\ \E map \in [topics -> live], rev \in [ids -> live] :
             /\ \A t \in topics : m_regInfos[map[t]].topic = t
             /\ \A i \in ids : m_regInfos[rev[i]].id = i
             /\ m_regInfosMap' = map
             /\ m_regInfosRevMap' = rev
       /\ told' = Restrict(told, ids \cap DOMAIN told)
       /\ UNCHANGED <<range, evicted, fault>>

-----------------------------------------------------------------------------
Next ==
    /\ ~ fault
    /\ \/ \E r \in Ranges : SetTopicIdAllocationRange(r[1], r[2])
       \/ \E t \in Topic, id \in PredefinedIds : RegPredefined(t, id)
       \/ \E t \in Topic : MapTopic(t)
       \/ \E id \in TopicId : DiscardRegistration(id)
       \/ ClearRegistrations

Spec == Init /\ [][Next]_vars

-----------------------------------------------------------------------------
\* The types of the registry's fields; 0 is never an id in use.
TypeOK ==
    /\ DOMAIN m_regInfos \subseteq Node
    /\ m_regInfos \in [DOMAIN m_regInfos -> RegInfo]
    /\ DOMAIN m_regInfosMap \subseteq Topic
    /\ m_regInfosMap \in [DOMAIN m_regInfosMap -> Node]
    /\ DOMAIN m_regInfosRevMap \subseteq TopicId \ {0}
    /\ m_regInfosRevMap \in [DOMAIN m_regInfosRevMap -> Node]
    /\ m_minTopicId \in TopicId \ {0}
    /\ m_maxTopicId \in 0 .. MaxTopicId
    /\ DOMAIN told \subseteq TopicId
    /\ told \in [DOMAIN told -> Topic]
    /\ evicted \in BOOLEAN
    /\ fault \in BOOLEAN

\* Every topic index entry leads to a live registration of that topic:
\* what the assert in mapTopic (RegMgr.cpp:102) and the first two asserts of
\* discardRegistration require.
TopicIndexSound ==
    \A t \in DOMAIN m_regInfosMap :
        /\ m_regInfosMap[t] \in DOMAIN m_regInfos
        /\ m_regInfos[m_regInfosMap[t]].topic = t

\* Every id index entry leads to the live registration that has this id, so
\* mapTopicId and the find_if of mapTopic never read a freed cell, whatever
\* range is configured and even after a registration was replaced.
IdIndexSound ==
    \A id \in DOMAIN m_regInfosRevMap :
        /\ m_regInfosRevMap[id] \in DOMAIN m_regInfos
        /\ m_regInfos[m_regInfosRevMap[id]].id = id

\* Both indices know every registration.
Indexed ==
    \A n \in DOMAIN m_regInfos :
        /\ m_regInfos[n].topic \in DOMAIN m_regInfosMap
        /\ m_regInfosMap[m_regInfos[n].topic] = n
        /\ m_regInfos[n].id \in DOMAIN m_regInfosRevMap
        /\ m_regInfosRevMap[m_regInfos[n].id] = n

\* No two live registrations share a topic id: the id a new topic gets was not
\* in use.  It holds even after replacements, provided the configured range
\* starts at 1.
UniqueIds ==
    \A n1, n2 \in DOMAIN m_regInfos :
        m_regInfos[n1].id = m_regInfos[n2].id => n1 = n2

Consistent == TopicIndexSound /\ IdIndexSound /\ Indexed

\* As long as no full range made mapTopic replace a registration, the list
\* and its two indices stay a one-to-one relation between topics and ids.
ConsistentUntilEviction == ~ evicted => Consistent

\* An id announced for a topic (in REGISTER, REGACK or SUBACK) keeps being
\* translated back to that topic by mapTopicId until it is discarded, cleared
\* or announced for another topic, as long as nothing was replaced.
AnnouncedIdsStable ==
    ~ evicted =>
        \A id \in DOMAIN told :
            /\ id \in DOMAIN m_regInfosRevMap
            /\ m_regInfos[m_regInfosRevMap[id]].topic = told[id]
=============================================================================
