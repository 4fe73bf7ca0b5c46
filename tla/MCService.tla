----------------------------- MODULE MCService -----------------------------
\* An instance of Service for TLC: configurations on both sides of what
\* validate() accepts and of what fits into WeChat's five seconds.
EXTENDS Service

Times(timeout, ai) ==
  [Minimal EXCEPT !.evoclaw.timeout_ms = timeout, !.intent.enabled = TRUE,
                  !.intent.ai_timeout_ms = ai, !.intent.dict = "given"]

\* Answers at WeChat's limit, and a classifier that is refused.
Timely == {Times(4500, 4500), Times(4500, 5500)}

Encrypted(key, bind) ==
  [Times(3000, 1000) EXCEPT !.wechat.encrypt_mode = "safe", !.server.bind = bind,
                            !.wechat.encoding_aes_key = key, !.session.dir = "given"]

Starts ==
  { [Minimal EXCEPT !.evoclaw.worker_count = 2],
    [Minimal EXCEPT !.evoclaw.timeout_ms = 5000],
    [Minimal EXCEPT !.server.endpoint_path = "wechat", !.evoclaw.startup_grace_ms = 0],
    Encrypted("key", "given"), Encrypted("key", "typo"),
    Encrypted("43 other characters", "given") }

MCFiles == Timely \cup Starts
=============================================================================
