---------------------------- MODULE LibraryNames ----------------------------
(***************************************************************************)
(* The constants of the C library's bindings                               *)
(* (solace-rs-sys/src/solace_binding.rs): the names of its properties, by  *)
(* the option of the crate that is meant for them, what a property is when *)
(* no list mentions it, and the values that stand for a choice.            *)
(***************************************************************************)

SessionName ==
    [host_name |-> "SESSION_HOST", vpn_name |-> "SESSION_VPN_NAME",
     username |-> "SESSION_USERNAME", password |-> "SESSION_PASSWORD",
     connect_blocking |-> "SESSION_CONNECT_BLOCKING",
     guaranteed_with_web_transport |-> "SESSION_GUARANTEED_WITH_WEB_TRANSPORT",
     buffer_size_bytes |-> "SESSION_BUFFER_SIZE",
     block_write_timeout_ms |-> "SESSION_WRITE_TIMEOUT_MS",
     connect_timeout_ms |-> "SESSION_CONNECT_TIMEOUT_MS",
     subconfirm_timeout_ms |-> "SESSION_SUBCONFIRM_TIMEOUT_MS",
     ignore_dup_subscription_error |-> "SESSION_IGNORE_DUP_SUBSCRIPTION_ERROR",
     tcp_nodelay |-> "SESSION_TCP_NODELAY",
     socket_send_buf_size_bytes |-> "SESSION_SOCKET_SEND_BUF_SIZE",
     socket_rcv_buf_size_bytes |-> "SESSION_SOCKET_RCV_BUF_SIZE",
     keep_alive_interval_ms |-> "SESSION_KEEP_ALIVE_INTERVAL_MS",
     keep_alive_limit |-> "SESSION_KEEP_ALIVE_LIMIT",
     application_description |-> "SESSION_APPLICATION_DESCRIPTION",
     client_name |-> "SESSION_CLIENT_NAME",
     compression_level |-> "SESSION_COMPRESSION_LEVEL",
     generate_rcv_timestamps |-> "SESSION_RCV_TIMESTAMP",
     generate_send_timestamp |-> "SESSION_SEND_TIMESTAMP",
     generate_sender_id |-> "SESSION_SEND_SENDER_ID",
     generate_sender_sequence_number |-> "SESSION_SEND_SEQUENCE_NUMBER",
     connect_retries_per_host |-> "SESSION_CONNECT_RETRIES_PER_HOST",
     connect_retries |-> "SESSION_CONNECT_RETRIES",
     reconnect_retries |-> "SESSION_RECONNECT_RETRIES",
     reconnect_retry_wait_ms |-> "SESSION_RECONNECT_RETRY_WAIT_MS",
     reapply_subscriptions |-> "SESSION_REAPPLY_SUBSCRIPTIONS",
     provision_timeout_ms |-> "SESSION_PROVISION_TIMEOUT_MS",
     calculate_message_expiration |-> "SESSION_CALCULATE_MESSAGE_EXPIRATION",
     no_local |-> "SESSION_NO_LOCAL",
     modifyprop_timeout_ms |-> "SESSION_MODIFYPROP_TIMEOUT_MS"]

SslName ==
    [ssl_validate_certificate |-> "SESSION_SSL_VALIDATE_CERTIFICATE",
     openssl_security_level |-> "SESSION_OPENSSL_SECURITY_LEVEL",
     ssl_cipher_suites |-> "SESSION_SSL_CIPHER_SUITES",
     ssl_trust_store_dir |-> "SESSION_SSL_TRUST_STORE_DIR"]

FlowName ==
    [bind_entity |-> "FLOW_BIND_ENTITY_ID", durable |-> "FLOW_BIND_ENTITY_DURABLE",
     bind_name |-> "FLOW_BIND_NAME", window_size |-> "FLOW_WINDOWSIZE", ack_mode |-> "FLOW_ACKMODE",
     start_state |-> "FLOW_START_STATE", selector |-> "FLOW_SELECTOR", no_local |-> "FLOW_NO_LOCAL",
     max_unacked_messages |-> "FLOW_MAX_UNACKED_MESSAGES", browser |-> "FLOW_BROWSER",
     active_flow_indication |-> "FLOW_ACTIVE_FLOW_IND",
     replay_start_location |-> "FLOW_REPLAY_START_LOCATION"]

CacheName ==
    [cache_name |-> "CACHESESSION_CACHE_NAME", max_message |-> "CACHESESSION_MAX_MSGS",
     max_age |-> "CACHESESSION_MAX_AGE", timeout_ms |-> "CACHESESSION_RR_TIMEOUT_MS"]

CryptoName == [ssl_lib |-> "GLOBAL_SSL_LIB", crypto_lib |-> "GLOBAL_CRYPTO_LIB"]

-----------------------------------------------------------------------------
\* Defaults of the properties that options of the crate set, by option.  The bindings
\* name none for the required options, the crypto and SSL libraries and a security level.
SessionDefaults ==
    [buffer_size_bytes |-> "90000", connect_blocking |-> "1", block_write_timeout_ms |-> "100000",
     connect_timeout_ms |-> "30000", subconfirm_timeout_ms |-> "10000",
     ignore_dup_subscription_error |-> "1", tcp_nodelay |-> "1",
     socket_send_buf_size_bytes |-> "90000", socket_rcv_buf_size_bytes |-> "150000",
     keep_alive_interval_ms |-> "3000", keep_alive_limit |-> "3", application_description |-> "",
     client_name |-> "", compression_level |-> "0", generate_rcv_timestamps |-> "0",
     generate_send_timestamp |-> "0", generate_sender_id |-> "0",
     generate_sender_sequence_number |-> "0", connect_retries_per_host |-> "0",
     connect_retries |-> "0", reconnect_retries |-> "0", reconnect_retry_wait_ms |-> "3000",
     reapply_subscriptions |-> "0", provision_timeout_ms |-> "3000", modifyprop_timeout_ms |-> "10000",
     calculate_message_expiration |-> "0", no_local |-> "0", ssl_validate_certificate |-> "1",
     guaranteed_with_web_transport |-> "0"]

FlowDefaults ==
    [durable |-> "1", window_size |-> "255", start_state |-> "1", selector |-> "", no_local |-> "0",
     max_unacked_messages |-> "-1", browser |-> "0", active_flow_indication |-> "0",
     replay_start_location |-> ""]

CacheLibraryDefaults == [cache_name |-> "", max_message |-> "1", max_age |-> "0", timeout_ms |-> "10000"]

\* SOLCLIENT_FLOW_PROP_BIND_ENTITY_QUEUE and _TE, SOLCLIENT_FLOW_PROP_ACKMODE_AUTO and
\* _CLIENT, SOLCLIENT_PROP_ENABLE_VAL and _DISABLE_VAL.
BindEntityValue == [queue |-> "2", topic_endpoint |-> "3"]
AckModeValue == [auto |-> "1", client |-> "2"]
FlagValue == [true |-> "1", false |-> "0"]
=============================================================================
