------------------------------- MODULE Config -------------------------------
(***************************************************************************)
(* The configuration (src/src/config.rs): what a file that sets only what  *)
(* it must means, and what Config::validate() accepts.  One record per     *)
(* section, with the keys of the file; times are in milliseconds.  A text  *)
(* is what the code tells apart about it: whether it is empty, parses, or  *)
(* has the right length.                                                   *)
(***************************************************************************)
EXTENDS Naturals

CONSTANT
  Files   \* the configurations that an operator may write

VARIABLE
  cfg     \* the configuration, read once at the start

-----------------------------------------------------------------------------
(* Sections, with the values of keys that are left out.  "given" stands    *)
(* for any text that serves.                                               *)

Server == [bind |-> "given", endpoint_path |-> "/wechat"]

Wechat == [token |-> "given", app_id |-> "given", encoding_aes_key |-> "",
           encrypt_mode |-> "plain"]

Evoclaw == [timeout_ms |-> 4500, worker_count |-> 4, startup_grace_ms |-> 2000]

Reply == [max_chars |-> 600]

Digest == [enabled |-> FALSE, data_dir |-> "given", latest_subdir |-> "given",
           max_age_secs |-> 36 * 3600]

\* dict: "" has no words at all, "given" has, and "blank" has an entry
\* without a tag or without words.
Intent == [enabled |-> FALSE, ai_fallback |-> TRUE, ai_timeout_ms |-> 1500, dict |-> ""]

NewsCard == [description_max_chars |-> 80, pic_url |-> "", url |-> ""]

Router == [events_in_card |-> 3, news_card |-> NewsCard]

\* dir: "absent" or a text.
Session == [dir |-> "absent", max_turns |-> 20, ttl_days |-> 30,
            gc_interval_secs |-> 3600, cid_lock_idle_secs |-> 300]

Minimal ==
  [server |-> Server, wechat |-> Wechat, evoclaw |-> Evoclaw, reply |-> Reply,
   digest |-> Digest, intent |-> Intent, router |-> Router, session |-> Session]

-----------------------------------------------------------------------------
(* Config::validate(), by section.                                         *)

\* The largest evoclaw.timeout_ms.
MaxTimeout == 4900

\* Bug: the address is first parsed by run_server().
BindUnparsed(c) == c.server.bind # ""

ServerValid(c) == c.server.bind # "typo"

\* A key is judged by its length.
WechatValid(c) ==
  /\ c.wechat.token \notin {"", "REPLACE_ME"}
  /\ c.wechat.encrypt_mode # "plain" =>
       /\ c.wechat.encoding_aes_key \in {"key", "43 other characters"}
       /\ c.wechat.app_id \notin {"", "wx_REPLACE_ME"}

\* Bug: as long as WeChat waits.
TimeoutOfWeChat(c) ==
  /\ c.evoclaw.timeout_ms \in 1..5000
  /\ c.evoclaw.worker_count > 0

EvoclawValid(c) ==
  /\ c.evoclaw.timeout_ms \in 1..MaxTimeout
  /\ c.evoclaw.worker_count > 0

DigestValid(c) ==
  c.digest.enabled =>
    /\ c.digest.data_dir # ""
    /\ c.digest.latest_subdir # ""
    /\ c.digest.max_age_secs > 0

\* Bug: any time for the classifier.
AnyClassifierTime(c) ==
  c.intent.enabled =>
    /\ c.intent.ai_timeout_ms > 0
    /\ c.intent.dict # "" \/ c.intent.ai_fallback
    /\ c.intent.dict # "blank"

IntentValid(c) ==
  c.intent.enabled =>
    /\ c.intent.ai_timeout_ms \in 1..c.evoclaw.timeout_ms
    /\ c.intent.dict # "" \/ c.intent.ai_fallback
    /\ c.intent.dict # "blank"

RouterValid(c) ==
  /\ c.router.events_in_card > 0
  /\ c.router.news_card.description_max_chars > 0
  /\ {c.router.news_card.pic_url, c.router.news_card.url} \subseteq {"", "https"}

SessionValid(c) ==
  c.session.dir # "absent" =>
    /\ c.session.dir # ""
    /\ c.session.max_turns > 0
    /\ c.session.ttl_days > 0

Valid(c) ==
  /\ ServerValid(c)
  /\ WechatValid(c)
  /\ EvoclawValid(c)
  /\ c.reply.max_chars > 0
  /\ DigestValid(c)
  /\ IntentValid(c)
  /\ RouterValid(c)
  /\ SessionValid(c)

\* AiClassifier::new() is called for this configuration.
Classifies(c) == c.intent.enabled /\ c.intent.ai_fallback
=============================================================================
