--------------------------- MODULE UpstreamPromise --------------------------
(***************************************************************************)
(* What the application is promised about its publishes and subscriptions, *)
(* over the client, the gateway and the broker of Upstream together.       *)
(***************************************************************************)
EXTENDS Upstream

\* A publish of QoS 1 or 2 that is reported complete reached the broker, and with
\* its topic unless the gateway lost a registration before: no late answer to
\* another request, to an earlier attempt or under another topic id passes for it.
ReportedMeansPublished ==
    \A k \in DOMAIN asked :
        asked[k].type = "Send" /\ asked[k].qos > 0 /\ result[k] = "Complete" =>
            \E i \in DOMAIN broker.received :
                /\ broker.received[i].n = asked[k].n
                /\ i \in DOMAIN heard => broker.received[i].topic = asked[k].topic

\* The broker publishes the application's messages in the order they were asked
\* for, those of QoS 2 once, whatever is lost, late, cancelled or given up, as long
\* as the gateway keeps its registrations.
Promise == INSTANCE InOrderDelivery WITH accepted <- sent, delivered <- heard
InOrder == Promise!Spec

\* The broker agrees with the last request about a topic if that was reported
\* complete: no late copy of an earlier one undoes it.
SubscriptionsAgree ==
    \A k \in DOMAIN asked :
        LET r == asked[k] IN
        /\ r.type # "Send" /\ result[k] = "Complete"
        /\ \A l \in DOMAIN asked : l > k => asked[l].type = "Send" \/ asked[l].topic # r.topic
        => (r.topic \in broker.subs <=> r.type = "Subscribe")

\* The application makes no more requests after the last: every one is reported, or
\* was cancelled, in the end, even if the gateway never answers.
EveryRequestEnds == []<>(\A k \in DOMAIN result : result[k] # "none")

\* "Testing Qos0 publish with short topic name": such a publish is not refused while
\* nothing fails.
ShortTopicsAccepted ==
    \A k \in DOMAIN asked :
        IsShortTopic(asked[k].topic) /\ result[k] = "Rejected" => faults > 0

\* "Remove record on send attempt rather than acknowledgement": after an
\* unsubscribe request the client does not accept messages of the topic until it
\* is subscribed to again.
RecordRemoved ==
    \A k \in DOMAIN asked :
        /\ asked[k].type = "Unsubscribe"
        /\ \A l \in DOMAIN asked : l > k => asked[l].topic # asked[k].topic
        /\ \A l \in DOMAIN asked : l < k => result[l] # "none"
        => asked[k].topic \notin u.filters
=============================================================================
