---------------------------- MODULE LineSignals ----------------------------
(***************************************************************************)
(* What one line of a collected log says to the tools that analyse it      *)
(* (src/services/log_analysis.py, log_filtering.py).  A line is a record:  *)
(*   form      "json", an object, alone or behind Docker's timestamp; or   *)
(*             "text", anything else                                       *)
(*   status    the HTTP status it gives, 0 for none                        *)
(*   level     its level, in capitals, "" for none                         *)
(*   said      whether it has a message field (an object)                  *)
(*   text      its message, if it has one, or else its wording; two        *)
(*             messages are the same text iff only white space tells them  *)
(*             apart, two wordings of messageless objects also if only     *)
(*             identifiers and numbers do                                  *)
(*   route     its method, host and path, "" for none                      *)
(*   meaning   its event, operation and error code fields, "" for none     *)
(*   upstream  "yes", "no" or "unknown": was one tried                     *)
(*   client    the address of the client, "" for none                      *)
(*   time      its timestamp, 0 for none                                   *)
(*   bans      the address an AppSec second-probe ban line bans, "" if it  *)
(*             is not one                                                  *)
(*   end       what ends it in the file: "lf" or a lone "cr"               *)
(* Routes and texts are model values; the sets below say what the patterns *)
(* and word lists of the code make of them.                                *)
(***************************************************************************)
EXTENDS PythonLists, FiniteSets

CONSTANTS ErrorTexts,      \* texts with a word of the failure vocabulary
          IncidentTexts,   \* texts with an incident keyword of the views
          HealthPaths, AssetPaths, ChallengePaths, ProbePaths

Successful(status) == status \in 200..299

HealthRequest(line) == line.route \in HealthPaths /\ Successful(line.status)

StatusClasses == <<"1xx", "2xx", "3xx", "4xx", "5xx">>
StatusClass(status) ==
    IF status \in 100..599 THEN StatusClasses[status \div 100] ELSE "none"

UpstreamError(line) ==
    line.status \in {502, 503, 504} /\ line.upstream = "yes"

-----------------------------------------------------------------------------
(* Grouping: the category and identity of an error-like line.              *)

ErrorLike(text) == text \in ErrorTexts

Category(line) ==
    IF line.form = "text"
    THEN IF ErrorLike(line.text) THEN "text_error" ELSE "none"
    ELSE IF line.status >= 500 THEN "http_5xx"
    ELSE IF line.status >= 400 THEN "http_4xx"
    ELSE IF line.level \in {"ERROR", "CRITICAL"} THEN "application_error"
    ELSE IF line.level \in {"WARN", "WARNING"} /\ line.said /\ ErrorLike(line.text)
         THEN "warning_signal" ELSE "none"

IsError(line) == Category(line) # "none"

Severity(line) ==
    IF Category(line) \in {"http_5xx", "application_error"} THEN "high" ELSE "medium"

SeverityRank(severity) == CASE severity = "high" -> 0 [] severity = "medium" -> 1 [] OTHER -> 2

IdentityKind(line) ==
    IF line.form = "text" THEN "plain_text_message"
    ELSE IF line.said THEN "explicit_message"
    ELSE IF line.status # 0 /\ line.route # "" THEN "http_summary"
    ELSE IF line.meaning # "" THEN "structured_semantic"
    ELSE "raw_fallback"

\* The wording counts only where it is the line's identity.
IdentityMessage(line) ==
    IF IdentityKind(line) \in {"http_summary", "structured_semantic"} THEN "" ELSE line.text

\* The digest, as the tuple it is taken of.  Every error-like line has a
\* message, a route or a meaning, so the fallback on the summary is not needed.
Fingerprint(key, line, proxy) ==
    IF line.form = "text"
    THEN <<key, "text_error", 0, "", "plain_text_message", line.text, "", "unknown">>
    ELSE <<key, Category(line), line.status, line.route, IdentityKind(line),
           IdentityMessage(line), line.meaning, IF proxy THEN line.upstream ELSE "unknown">>

-----------------------------------------------------------------------------
(* Proxy and probe lines.                                                   *)

ProxyEvent(line) == line.form = "json"

HasRoute(line) == ProxyEvent(line) /\ StatusClass(line.status) # "none"

RouteKey(line) == <<line.route, line.status>>

SensitiveProbe(line) ==
    ProxyEvent(line) /\ line.status \in {403, 404} /\ line.client # "" /\ line.route \in ProbePaths

-----------------------------------------------------------------------------
(* Filtered views: why a noise profile excludes a line, "" when it keeps it. *)

SuccessfulAsset(line) ==
    line.route \in AssetPaths /\ line.status # 0 /\ (line.status < 300 \/ line.status = 304)

AssetReason(line) == IF SuccessfulAsset(line) THEN "successful_static_asset_request" ELSE ""

Exclusion(profile, line) ==
    CASE line.route = "" -> ""
      [] profile = "web_noise" /\ HealthRequest(line) -> "health_check_request"
      [] profile = "proxy_noise" /\ HealthRequest(line) -> "proxy_health_check_request"
      [] profile = "proxy_noise" /\ line.route \in ChallengePaths /\ line.status < 500
            -> "certificate_challenge_request"
      [] profile = "backend_noise" /\ HealthRequest(line) -> "application_health_check_log"
      [] profile = "frontend_noise" /\ HealthRequest(line) -> "frontend_health_check_log"
      [] profile = "frontend_noise" /\ line.route \in HealthPaths -> ""
      [] profile \in {"web_noise", "proxy_noise", "frontend_noise"} -> AssetReason(line)
      [] OTHER -> ""

IncidentLine(line) ==
    \/ line.status >= 400
    \/ line.form = "json"
       /\ line.level \in {"WARNING", "WARN", "ERROR", "CRITICAL", "EXCEPTION", "FATAL"}
    \/ line.text \in IncidentTexts

-----------------------------------------------------------------------------
(* Sources: records with key, collected, proxyNamed (its key contains proxy, *)
(* nginx or traefik), profile (of normalization) and noise.                 *)

Available(sources) == Where(sources, LAMBDA s : s.collected)

KeysOf(sources) == {sources[i].key : i \in DOMAIN sources}

IsProxySource(s) == s.profile \in {"proxy_access", "web_logs"} \/ s.proxyNamed

Diagnostics == "__collection_diagnostics"

\* An omitted or empty list of keys, "all", and the single-source alias.
AllSources == <<"all">>
ResolvedKeys(keys) == IF \E i \in DOMAIN keys : keys[i] = "all" THEN AllSources ELSE keys

InvalidKeys(keys) == \E i \in DOMAIN keys : keys[i] = ""

UnknownKeys(keys, sources) ==
    {keys[i] : i \in DOMAIN keys} \ (KeysOf(Available(sources)) \union {"all"})

Named(keys, sources) ==
    Where(Available(sources), LAMBDA s : \E i \in DOMAIN keys : keys[i] = s.key)

-----------------------------------------------------------------------------
(* Numbers of lines.  Reading a file as text turns a lone carriage return   *)
(* into a line end; grep, and the count stored with the file, do not.       *)

GrepNumber(lines, i) == 1 + Cardinality({j \in 1..i-1 : lines[j].end = "lf"})

StartsGrepLine(lines, i) == i = 1 \/ lines[i - 1].end = "lf"

\* The pieces grep prints for a pattern, here the set of texts it matches: all
\* pieces of every line of its own that holds a match, of which only the first
\* carries the file and the number.
GrepOutput(key, lines, pattern) ==
    LET hit(i) == \E j \in DOMAIN lines : /\ lines[j].text \in pattern
                                          /\ GrepNumber(lines, j) = GrepNumber(lines, i)
        piece(i) == [key |-> key, number |-> GrepNumber(lines, i), text |-> lines[i].text,
                     tagged |-> StartsGrepLine(lines, i)]
        hits == Where([i \in DOMAIN lines |-> i], hit)
    IN [n \in DOMAIN hits |-> piece(hits[n])]
=============================================================================
