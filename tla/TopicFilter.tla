----------------------------- MODULE TopicFilter -----------------------------
(***************************************************************************)
(* The client library's functions on topics and filters, which are         *)
(* sequences of characters: whether a filter or a topic is well formed,    *)
(* and whether a filter matches a topic.  Below them, what MQTT means.     *)
(***************************************************************************)
EXTENDS Naturals, Sequences, SequencesExt

Sep == "/"
SingleLevelWildcard == "+"
MultLevelWildcard == "#"

\* The position of the first separator, 0 if there is none.
FindSep(s) == SelectInSeq(s, LAMBDA ch : ch = Sep)
Before(s) == SubSeq(s, 1, FindSep(s) - 1)
After(s) == SubSeq(s, FindSep(s) + 1, Len(s))

RECURSIVE IsTopicMatch(_, _)
IsTopicMatch(filter, topic) ==
    LET fs == FindSep(filter)
        ts == FindSep(topic)
        First(level) == Before(filter) = <<SingleLevelWildcard>> \/ Before(filter) = level
    IN CASE filter = <<MultLevelWildcard>> -> TRUE
         [] filter # <<MultLevelWildcard>> /\ topic = << >> -> filter = << >>
         [] OTHER ->
            CASE ts # 0 /\ fs = 0 -> FALSE
              [] ts # 0 /\ fs # 0 -> First(Before(topic)) /\ IsTopicMatch(After(filter), After(topic))
              [] ts = 0 /\ fs # 0 -> After(filter) # << >> /\ First(topic) /\ IsTopicMatch(After(filter), << >>)
              [] ts = 0 /\ fs = 0 -> filter = <<SingleLevelWildcard>> \/ filter = topic

\* verifyPubTopicInternal.
VerifyPubTopic(topic) ==
    topic # << >> /\ \A i \in DOMAIN topic : topic[i] \notin {SingleLevelWildcard, MultLevelWildcard}

\* verifySubFilterInternal, from position pos on.
RECURSIVE Scan(_, _, _)
Scan(filter, pos, lastSep) ==
    LET follows == pos = 1 \/ lastSep = pos - 1
        Next(sep) == Scan(filter, pos + 1, sep)
    IN IF pos > Len(filter) THEN TRUE
       ELSE CASE filter[pos] = Sep -> Next(pos)
              [] filter[pos] = MultLevelWildcard -> pos = Len(filter) /\ follows
              [] filter[pos] = SingleLevelWildcard ->
                    (pos = Len(filter) \/ filter[pos + 1] = Sep) /\ follows /\ Next(lastSep)
              [] OTHER -> Next(lastSep)

VerifySubFilter(filter) == filter # << >> /\ Scan(filter, 1, 0)

-----------------------------------------------------------------------------
(* What they are to compute. *)

RECURSIVE Levels(_)
Levels(s) == IF FindSep(s) = 0 THEN <<s>> ELSE <<Before(s)>> \o Levels(After(s))

\* A wildcard is a level of its own, and the multi-level one is the last.
WellFormed(filter) ==
    /\ filter # << >>
    /\ LET l == Levels(filter) IN \A i \in DOMAIN l :
          /\ Contains(l[i], SingleLevelWildcard) => l[i] = <<SingleLevelWildcard>>
          /\ Contains(l[i], MultLevelWildcard) => l[i] = <<MultLevelWildcard>> /\ i = Len(l)

\* Level by level, "+" for any one, a final "#" for any number of them.
Matches(filter, topic) ==
    LET f == Levels(filter)
        t == Levels(topic)
        many == Last(f) = <<MultLevelWildcard>>
        n == IF many THEN Len(f) - 1 ELSE Len(f)
    IN /\ IF many THEN n <= Len(t) ELSE n = Len(t)
       /\ \A i \in 1 .. n : f[i] = <<SingleLevelWildcard>> \/ f[i] = t[i]

\* Its last level is not empty; isTopicMatch takes an empty rest of a topic for
\* the end of it, so "a/+" does not match "a/".
Ends(topic) == topic # << >> /\ Last(topic) # Sep
=============================================================================
