------------------------------ MODULE MCBuilders ------------------------------
EXTENDS Builders

\* Numbers on both sides of every bound.
SampleNumbers ==
    [key \in DOMAIN LowerBound |-> {LowerBound[key] - 1, LowerBound[key], 0}]
    @@ [key \in DOMAIN UpperBound |-> {0, UpperBound[key], UpperBound[key] + 1}]
    @@ [seq_number |-> {0, 1, Word \div 2 - 1, Word \div 2, Word - 1},
        priority |-> {0, 255},
        class_of_service |-> {1, 2, 3},
        sender_timestamp |-> {-2, -1, 0, 1, 3, Word - 1, Word},
        rcv_timestamp |-> {-1, 0, 3},
        cache_status |-> {-1, 0, 1, 2, 3},
        msg_id |-> {0}, cache_request_id |-> {0, 1}, expiration |-> {1},
        user_data |-> {0, MaxUserData, MaxUserData + 1},
        max_unacked_messages |-> {-1, 0, 1}]
    @@ [key \in {"reconnect_retry_wait_ms", "provision_timeout_ms", "modifyprop_timeout_ms",
                 "window_size", "max_message", "max_age", "timeout_ms"} |-> {0, 1}]

AllKinds == {"session", "async_session", "flow", "async_flow", "cache", "crypto", "message", "foreign"}

OnlyCache == {"cache"}
=============================================================================
