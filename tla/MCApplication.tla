---------------------------- MODULE MCApplication ----------------------------
EXTENDS Application

CONSTANTS t1, t2

Context(crypto) == [op |-> "context", crypto |-> crypto]
Publish == [op |-> "publish"]
Batched(n) == [op |-> "publish_multiple", size |-> n]
Subscribe(topic) == [op |-> "subscribe", topic |-> topic]
Unsubscribe(topic) == [op |-> "unsubscribe", topic |-> topic]
CreateFlow(name) == [op |-> "create_flow", name |-> name]
Plain(op) == [op |-> op]

\* Contexts racing for the initialisation; batches racing for the mutex; flows and
\* subscriptions while events come; receivers that change hands; requests.
AllPrograms ==
    {[t \in Threads |-> IF t = t1 THEN pair[1] ELSE pair[2]] : pair \in {
        <<<<Context("A"), Context("B")>>, <<Context("none"), Context("A")>>>>,
        <<<<Context("nul"), Context("A")>>, <<Context("B")>>>>,
        <<<<Batched(3), Publish>>, <<Batched(5), Batched(0)>>>>,
        <<<<CreateFlow("q"), Publish>>, <<Batched(3), CreateFlow("q")>>>>,
        <<<<Subscribe("a"), Unsubscribe("a"), Subscribe("nul")>>, <<CreateFlow("nul"), Plain("try_recv"), Plain("recv")>>>>,
        <<<<Plain("recv_event"), Plain("take_event_receiver"), Plain("recv_event")>>, <<Publish, Plain("take_event_receiver")>>>>,
        <<<<CreateFlow("q"), Plain("flow_try_recv_event"), Plain("flow_recv_event")>>, <<Plain("recv_event")>>>>,
        <<<<Plain("request"), Plain("request"), Plain("request")>>, <<Plain("respond"), Plain("respond")>>>>}}
=============================================================================
