----------------------------- MODULE SessionProps -----------------------------
(***************************************************************************)
(* What SessionBuilder::build makes of the options it was given            *)
(* (src/session/builder.rs): CheckedSessionProps::try_from refuses what is *)
(* missing, holds a NUL byte or is out of range, to_raw writes the list    *)
(* solClient_session_create copies.                                        *)
(*                                                                         *)
(* texts and nums are the UncheckedSessionProps: the options that are      *)
(* Some, flags among the texts.                                            *)
(***************************************************************************)
EXTENDS PropertyLists

Required == <<"host_name", "vpn_name", "username", "password">>

SessionTexts ==
    Range(Required) \cup {"client_name", "application_description", "ssl_trust_store_dir", "ssl_cipher_suites"}

SessionFlags ==
    {"ignore_dup_subscription_error", "tcp_nodelay", "generate_rcv_timestamps",
     "generate_send_timestamp", "generate_sender_id", "generate_sender_sequence_number",
     "reapply_subscriptions", "calculate_message_expiration", "no_local", "ssl_validate_certificate"}

\* i64 options; the other numbers are unsigned.
Retries == {"connect_retries_per_host", "connect_retries", "reconnect_retries"}

\* The comparisons x < bound of try_from, and those that let 0 pass.
LowerBound ==
    [buffer_size_bytes |-> 1, block_write_timeout_ms |-> 1, connect_timeout_ms |-> 1,
     subconfirm_timeout_ms |-> 1000, keep_alive_limit |-> 3,
     socket_send_buf_size_bytes |-> 1024, socket_rcv_buf_size_bytes |-> 1024,
     keep_alive_interval_ms |-> 50,
     connect_retries_per_host |-> -1, connect_retries |-> -1, reconnect_retries |-> -1]

ZeroPasses == {"socket_send_buf_size_bytes", "socket_rcv_buf_size_bytes", "keep_alive_interval_ms"}

\* The comparisons x > bound.
UpperBound == [compression_level |-> 9, openssl_security_level |-> 5]

SessionNumbers ==
    DOMAIN LowerBound \cup DOMAIN UpperBound
    \cup {"reconnect_retry_wait_ms", "provision_timeout_ms", "modifyprop_timeout_ms"}

\* Variant of OutOfRange: 0 passes everywhere.
OutOfRangeUnlessZero(key, x) ==
    \/ key \in DOMAIN LowerBound /\ x < LowerBound[key] /\ x # 0
    \/ key \in DOMAIN UpperBound /\ x > UpperBound[key]

\* The guards of the match arms that return InvalidRange.
OutOfRange(key, x) ==
    \/ key \in DOMAIN LowerBound /\ x < LowerBound[key] /\ ~(key \in ZeroPasses /\ x = 0)
    \/ key \in DOMAIN UpperBound /\ x > UpperBound[key]

SessionCheckOrder ==
    <<"host_name", "vpn_name", "username", "password", "client_name", "application_description",
      "buffer_size_bytes", "block_write_timeout_ms", "connect_timeout_ms", "subconfirm_timeout_ms", "socket_send_buf_size_bytes",
      "socket_rcv_buf_size_bytes", "keep_alive_interval_ms", "keep_alive_limit",
      "compression_level", "connect_retries_per_host", "connect_retries", "reconnect_retries",
      "reconnect_retry_wait_ms", "provision_timeout_ms", "modifyprop_timeout_ms",
      "ssl_trust_store_dir", "ssl_cipher_suites", "openssl_security_level">>

\* CheckedSessionProps::try_from: the option it refuses first, or "none".
SessionFault(texts, nums) ==
    LET missing == Range(Required) \ DOMAIN texts
        malformed == {key \in SessionTexts \cap DOMAIN texts : HasNul(texts[key])}
        outOfRange == {key \in DOMAIN nums : OutOfRange(key, nums[key])}
    IN  FirstFault(SessionCheckOrder, missing \cup malformed \cup outOfRange)

OptionalOrder ==
    <<"buffer_size_bytes", "block_write_timeout_ms", "connect_timeout_ms", "subconfirm_timeout_ms",
      "ignore_dup_subscription_error", "tcp_nodelay", "socket_send_buf_size_bytes",
      "socket_rcv_buf_size_bytes", "keep_alive_interval_ms", "keep_alive_limit",
      "application_description", "client_name", "compression_level", "generate_rcv_timestamps",
      "generate_send_timestamp", "generate_sender_id", "generate_sender_sequence_number",
      "connect_retries_per_host", "connect_retries", "reconnect_retries",
      "reconnect_retry_wait_ms", "reapply_subscriptions", "provision_timeout_ms",
      "calculate_message_expiration", "no_local", "modifyprop_timeout_ms", "ssl_trust_store_dir",
      "ssl_cipher_suites", "openssl_security_level", "ssl_validate_certificate">>

SessionConstants ==
    [connect_blocking |-> FlagValue["true"], guaranteed_with_web_transport |-> FlagValue["true"]]

\* Variant of SessionStrings: a flag that is false is taken for one that is not set.
SessionStringsEnabled(texts, nums) ==
    [key \in {k \in DOMAIN texts : texts[k] # "false"} |->
        IF key \in SessionFlags THEN FlagValue[texts[key]] ELSE texts[key]]
    ++ [key \in DOMAIN nums |-> ToString(nums[key])]

\* The C strings of the options that are set, flags through bool_to_ptr.
SessionStrings(texts, nums) ==
    [key \in DOMAIN texts |-> IF key \in SessionFlags THEN FlagValue[texts[key]] ELSE texts[key]]
    ++ [key \in DOMAIN nums |-> ToString(nums[key])]

SessionNames == SessionName ++ SslName

\* Variant of SessionToRaw: the null pointer is forgotten.
SessionToRawUnended(texts, nums) ==
    PushAll(Required, SessionNames, texts)
    \o PushAll(<<"connect_blocking", "guaranteed_with_web_transport">>, SessionNames, SessionConstants)
    \o PushAll(OptionalOrder, SessionNames, SessionStrings(texts, nums))

\* CheckedSessionProps::to_raw.
SessionToRaw(texts, nums) ==
    PushAll(Required, SessionNames, texts)
    \o PushAll(<<"connect_blocking", "guaranteed_with_web_transport">>, SessionNames, SessionConstants)
    \o PushAll(OptionalOrder, SessionNames, SessionStrings(texts, nums))
    \o <<Null>>

-----------------------------------------------------------------------------
(* AsyncSessionBuilder (src/async_support.rs).                             *)

\* The options it has, beside the required ones, and passes on.
AsyncSessionOptions ==
    {"reconnect_retries", "reconnect_retry_wait_ms", "reapply_subscriptions", "connect_timeout_ms",
     "ssl_trust_store_dir", "ssl_cipher_suites", "openssl_security_level", "ssl_validate_certificate",
     "client_name", "generate_rcv_timestamps"}

\* AsyncSessionBuilder::build wants the required options first, then builds a session
\* and refuses what that refuses.
AsyncSessionFault(texts, nums) ==
    LET missing == FirstFault(Required, Range(Required) \ DOMAIN texts)
    IN  IF missing # "none" THEN missing ELSE SessionFault(texts, nums)

\* What it sets of the SessionBuilder.
Forward(fields) == Restrict(fields, DOMAIN fields \cap (Range(Required) \cup AsyncSessionOptions))
=============================================================================
