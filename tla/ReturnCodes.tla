----------------------------- MODULE ReturnCodes -----------------------------
(***************************************************************************)
(* The numbers the C library returns and raises, and what the crate makes  *)
(* of them (src/lib.rs, src/session/event.rs, src/flow/event.rs; numbers   *)
(* of solace-rs-sys).  A number is looked up in a table; one that is not   *)
(* in it becomes Fail as a return code and is dropped as an event.         *)
(***************************************************************************)
EXTENDS Integers, Sequences

RawCodes ==
    [Ok |-> 0, WouldBlock |-> 1, InProgress |-> 2, NotReady |-> 3, EndOfStream |-> 4,
     NotFound |-> 5, NoEvent |-> 6, Incomplete |-> 7, Rollback |-> 8, Fail |-> -1]

\* SolClientReturnCode::from_raw.
FromRaw(raw) ==
    IF \E name \in DOMAIN RawCodes : RawCodes[name] = raw
    THEN CHOOSE name \in DOMAIN RawCodes : RawCodes[name] = raw
    ELSE "Fail"

IsOk(code) == code = "Ok"

\* SessionEvent: the number of an event is its place, from 0.
SessionEvents ==
    <<"UpNotice", "DownError", "ConnectFailedError", "RejectedMsgError", "SubscriptionError",
      "RxMsgTooBigError", "Acknowledgement", "AssuredPublishingUp", "AssuredDeliveryDown",
      "TeUnsubscribeError", "TeUnsubscribeOk", "CanSend", "ReconnectingNotice",
      "ReconnectedNotice", "ProvisionError", "ProvisionOk", "SubscriptionOk",
      "VirtualRouterNameChanged", "ModifypropOk", "ModifypropFail", "RepublishUnackedMessages">>

\* FlowEvent, likewise.
FlowEvents ==
    <<"UpNotice", "DownError", "BindFailedError", "RejectedMsgError", "SessionDown",
      "Active", "Inactive", "Reconnecting", "Reconnected">>

\* from_u32 in static_on_event and static_on_flow_event: the event to pass on, or none.
Translate(table, raw) == IF raw + 1 \in DOMAIN table THEN <<table[raw + 1]>> ELSE <<>>
=============================================================================
