---------------------------- MODULE RequestReply ----------------------------
(***************************************************************************)
(* Session::request (src/session.rs) against the responder of              *)
(* examples/request_reply.rs.  Requesters have a Session each, so nothing  *)
(* but the broker is between them and the responder.  That a request gets  *)
(* the reply that carries its correlation id is the C library's doing, so  *)
(* a reply is the request it is for.  A respond call is one run of the     *)
(* responder's thread, which a panic ends.                                 *)
(***************************************************************************)
EXTENDS SessionCalls

CONSTANTS
    NoReplyTo,      \* a message on the topic that asks for no reply
    NoCorrelation   \* one that asks for a reply and has no correlation id

ASSUME StraysAssumption == {NoReplyTo, NoCorrelation} \cap (Threads \X Nat) = {} /\ NoReplyTo # NoCorrelation
ASSUME ResponderAssumption ==
    \A p \in Programs, t, u \in Threads :
        (\E i \in DOMAIN p[t] : p[t][i].op = "respond") /\ (\E i \in DOMAIN p[u] : p[u][i].op = "respond") => t = u

VARIABLES
    listening,      \* the responder's subscription is at the broker
    asked,          \* rx of the responder: the requests it got, each named by its call
    held,           \* the one it answers
    replies         \* replies on their way

requestVars == <<listening, asked, held, replies>>

RequestReplyInit ==
    /\ listening = FALSE
    /\ asked = <<>>
    /\ held = <<>>
    /\ replies = {}

-----------------------------------------------------------------------------
(* The requester.                                                          *)

\* solClient_session_sendRequest sends, and waits for the reply; a request on a topic nobody
\* subscribes to is lost.
SendRequest(t) ==
    /\ ReadyFor(t, "request")
    /\ Goto(t, "request")
    /\ asked' = IF listening THEN Append(asked, <<t, at[t]>>) ELSE asked
    /\ UNCHANGED <<listening, held, replies>>

\* The reply to the request arrives in time; reply_ptr is not null.
RequestReturns(t) ==
    /\ pc[t] = "request"
    /\ <<t, at[t]>> \in replies
    /\ replies' = replies \ {<<t, at[t]>>}
    /\ ReturnFrom(t, RawCodes.Ok)
    /\ UNCHANGED <<listening, asked, held>>

\* It times out, or fails before anything is sent or after.
RequestFails(t, raw) ==
    /\ pc[t] = "request" \/ (raw # RawCodes.Incomplete /\ ReadyFor(t, "request"))
    /\ ReturnFrom(t, raw)
    /\ UNCHANGED requestVars

\* A reply to a request that has given up is nobody's: it goes to on_message.
LateReply(call) ==
    /\ \A t \in Threads : pc[t] = "request" => call # <<t, at[t]>>
    /\ replies' = replies \ {call}
    /\ UNCHANGED <<listening, asked, held>>

-----------------------------------------------------------------------------
(* The responder.                                                          *)

\* replier.subscribe(TOPIC).unwrap().
Listen(t, raw) ==
    /\ ReadyFor(t, "respond")
    /\ IF IsOk(FromRaw(raw))
       THEN listening' = TRUE /\ Goto(t, "await")
       ELSE UNCHANGED listening /\ Return(t, "Panicked")
    /\ UNCHANGED <<asked, held, replies>>

\* Anybody may publish on the topic.
StrayArrives(stray) ==
    /\ listening /\ asked = <<>>
    /\ asked' = <<stray>>
    /\ UNCHANGED <<listening, held, replies>>

\* The responder's session goes out of scope, and rx with all that is left in it.
EndResponder(t, code) ==
    /\ listening' = FALSE
    /\ asked' = <<>>
    /\ Return(t, code)

\* rx.recv(): the first message is the only one.  One without reply-to is not answered; the
\* correlation id is unwrapped.
TakeRequest(t) ==
    /\ pc[t] = "await" /\ asked # <<>>
    /\ CASE Head(asked) = NoReplyTo -> EndResponder(t, "Ignored") /\ UNCHANGED held
         [] Head(asked) = NoCorrelation -> EndResponder(t, "Panicked") /\ UNCHANGED held
         [] OTHER -> /\ held' = <<Head(asked)>>
                     /\ asked' = Tail(asked)
                     /\ Goto(t, "reply")
                     /\ UNCHANGED listening
    /\ UNCHANGED replies

\* The reply has reply-to and correlation id of the request; that the publish may fail is
\* ignored.
PublishReply(t, raw) ==
    /\ pc[t] = "reply"
    /\ replies' = IF IsOk(FromRaw(raw)) THEN replies \cup {held[1]} ELSE replies
    /\ held' = <<>>
    /\ EndResponder(t, "Replied")

-----------------------------------------------------------------------------
RequestStep(t) ==
    \/ SendRequest(t) \/ RequestReturns(t)
    \/ \E raw \in {RawCodes.Incomplete, RawCodes.NotReady, RawCodes.Fail} : RequestFails(t, raw)
    \/ TakeRequest(t) \/ \E raw \in {RawCodes.Ok, RawCodes.Fail} : Listen(t, raw) \/ PublishReply(t, raw)

RequestNetwork ==
    \/ \E stray \in {NoReplyTo, NoCorrelation} : StrayArrives(stray)
    \/ \E call \in replies : LateReply(call)
=============================================================================
