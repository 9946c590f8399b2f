----------------------------- MODULE MCUpstream -----------------------------
EXTENDS UpstreamPromise

Predef == [t \in {"p", "q"} |-> IF t = "p" THEN 8 ELSE 9]
Ask(type, topic, qos) == [type |-> type, topic |-> topic, qos |-> qos]
ShortIds == [t \in {"s"} |-> 7]
Publishing == {Ask("Send", "a", 1), Ask("Send", "b", 2), Ask("Send", "a", 0)}
Subscribing ==
    {Ask("Subscribe", "a", 1), Ask("Unsubscribe", "a", 1), Ask("Subscribe", "b", 1),
     Ask("Subscribe", "p", 1), Ask("Unsubscribe", "q", 1), Ask("Send", "p", 1),
     Ask("Send", "s", 0)}
ShortOnly == {Ask("Send", "s", 1)}
Applications == {Publishing, Subscribing}
ShortTopics == {ShortOnly}

\* Filters and topics of up to five and four characters.
F == INSTANCE TopicFilter
Strings(chars, n) == UNION {[1 .. k -> chars] : k \in 1 .. n}
Filters == Strings({"a", "/", "+", "#"}, 5)
Topics == Strings({"a", "b", "/"}, 4)

\* The client accepts the filters MQTT allows, and topics without wildcards.
ASSUME FiltersVerified ==
    /\ \A f \in Filters : F!VerifySubFilter(f) = F!WellFormed(f)
    /\ \A f \in Filters : F!VerifyPubTopic(f) = (f \in Strings({"a", "/"}, 5))

\* A filter it accepts matches the topics it should, except those that end in "/".
ASSUME MatchAgrees ==
    \A f \in {x \in Filters : F!VerifySubFilter(x)}, t \in {x \in Topics : F!Ends(x)} :
        F!IsTopicMatch(f, t) = F!Matches(f, t)
=============================================================================
