------------------------------ MODULE FlowProps ------------------------------
(***************************************************************************)
(* The property lists of the smaller objects: a flow                       *)
(* (src/flow/builder.rs), a cache session (src/cache_session.rs) and the   *)
(* crypto libraries of the process (src/context.rs).                       *)
(***************************************************************************)
EXTENDS PropertyLists

\* FlowBuilder::new: what is not an Option starts with a value.
FlowDefaultTexts ==
    [ack_mode |-> "auto", durable |-> "true", no_local |-> "false", start_state |-> "true",
     active_flow_indication |-> "false", browser |-> "false"]
FlowDefaultNumbers == [window_size |-> 255]

FlowFlags == {"durable", "no_local", "start_state", "active_flow_indication", "browser"}
FlowOptions == {"selector", "replay_start_location"}

\* FlowBuilder::build up to the list: the argument it misses or refuses first.
FlowFault(texts) ==
    LET required == <<"bind_entity", "bind_name", "on_message">>
        missing == FirstFault(required, Range(required) \ DOMAIN texts)
        malformed == {key \in DOMAIN texts : HasNul(texts[key])}
    IN  IF missing # "none" THEN missing
        ELSE FirstFault(<<"bind_name", "selector", "replay_start_location">>, malformed)

\* Two flags are passed only when they are set.
FlowPassed(texts) ==
    {key \in DOMAIN texts \ {"on_message"} :
        key \in {"active_flow_indication", "browser"} => texts[key] = "true"}

\* The C strings of a flow's options.
FlowStrings(texts, nums) ==
    [key \in FlowPassed(texts) |->
        CASE key \in FlowFlags -> FlagValue[texts[key]]
          [] key = "bind_entity" -> BindEntityValue[texts[key]]
          [] key = "ack_mode" -> AckModeValue[texts[key]]
          [] OTHER -> texts[key]]
    ++ [key \in DOMAIN nums |-> ToString(nums[key])]

\* FlowBuilder::build: the list.
FlowToRaw(texts, nums) ==
    PushAll(<<"bind_entity", "bind_name", "durable", "ack_mode", "window_size", "no_local",
              "start_state", "selector", "max_unacked_messages", "active_flow_indication",
              "browser", "replay_start_location">>,
            FlowName, FlowStrings(texts, nums))
    \o <<Null>>

\* AsyncSession::create_flow_active: a queue, durable, stopped until start(), the rest
\* from its arguments.
AsyncFlowFault(texts) == IF HasNul(texts.bind_name) THEN "bind_name" ELSE "none"

AsyncFlowToRaw(texts, nums) ==
    PushAll(<<"bind_entity", "bind_name", "durable", "ack_mode", "window_size", "start_state",
              "max_unacked_messages", "active_flow_indication">>,
            FlowName,
            FlowStrings([bind_entity |-> "queue", durable |-> "true", start_state |-> "false"] ++ texts, nums))
    \o <<Null>>

-----------------------------------------------------------------------------
CacheDefaults == [max_message |-> 1, max_age |-> 0, timeout_ms |-> 10000]

\* CacheSession::new: only the name can be refused.
CacheFault(texts) == IF HasNul(texts.cache_name) THEN "cache_name" ELSE "none"

\* The key in front of max_message is SOLCLIENT_CACHESESSION_PROP_DEFAULT_MAX_MSGS, the
\* text of a value.
CacheKeys == [CacheName EXCEPT !.max_message = CacheLibraryDefaults.max_message]

CacheToRaw(texts, nums) ==
    PushAll(<<"cache_name", "max_message", "max_age", "timeout_ms">>,
            CacheKeys,
            texts ++ [key \in DOMAIN CacheDefaults |-> ToString((nums ++ CacheDefaults)[key])])
    \o <<Null>>

-----------------------------------------------------------------------------
\* RawContext::new.
CryptoFault(texts) ==
    FirstFault(<<"ssl_lib", "crypto_lib">>, {key \in DOMAIN texts : HasNul(texts[key])})

\* Without a library to name the C library gets no list at all.
CryptoToRaw(texts) ==
    IF DOMAIN texts = {} THEN NoList ELSE PushAll(<<"ssl_lib", "crypto_lib">>, CryptoName, texts) \o <<Null>>
=============================================================================
