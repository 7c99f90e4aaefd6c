----------------------------- MODULE Classifier -----------------------------
(***************************************************************************)
(* How an upstream answer is classified (util/classifier.go) and which     *)
(* action the cooldown manager takes for it (cooldown/manager.go).         *)
(***************************************************************************)
EXTENDS Integers

(* A failure is a record [status, tag, network, reset]: its status, what   *)
(* the body or the headers say, whether it is a network error, and the     *)
(* reset time a 1308 body names (a point in time; 0 when it names none).   *)

NoReset == 0

StatusLevel(status) ==
    IF status \in 200..299 THEN "None"
    ELSE IF status \in {401, 402, 403, 429, 596, 597} THEN "Key"
    ELSE IF status \in {406, 408, 410, 413, 414, 415, 416, 417} THEN "Client"
    ELSE IF status \in {405, 444, 499} \/ status >= 500 THEN "Channel"
    ELSE IF status >= 400 THEN "Key"
    ELSE "Client"

(* tag: "account"  a 401/403 body that names a disabled account            *)
(*      "global"   a 429 limited for long, by IP or by account             *)
(*      "upstream" a 597 event that is api_error or overloaded_error       *)
(*      "badkey"   a 400 body that blames the API key                      *)
(*      "nomodel"  a 404 body that says the model does not exist           *)
(*      "plain"    none of these                                           *)
Tags == {"plain", "account", "global", "upstream", "badkey", "nomodel"}

SSELevel(tag)       == IF tag = "upstream" THEN "Channel" ELSE "Key"
RateLimitLevel(tag) == IF tag = "global" THEN "Channel" ELSE "Key"
Level400(tag)       == IF tag = "badkey" THEN "Key" ELSE "Channel"
Level404(tag)       == IF tag = "nomodel" THEN "Client" ELSE "Channel"
AuthLevel(tag)      == IF tag = "account" THEN "Channel" ELSE "Key"

HTTPLevel(status, tag) ==
    CASE status = 597          -> SSELevel(tag)
      [] status = 429          -> RateLimitLevel(tag)
      [] status = 400          -> Level400(tag)
      [] status = 404          -> Level404(tag)
      [] status \in {401, 403} -> AuthLevel(tag)
      [] OTHER                 -> StatusLevel(status)

(* A body that names a 1308 reset time is a matter of its key, whatever    *)
(* the status.                                                             *)
ClassifyHTTPResponse(in) ==
    IF in.reset # NoReset THEN "Key" ELSE HTTPLevel(in.status, in.tag)

(* classifyDecision: keyCount is the KeyCount of the channel's row, and    *)
(* 0 stands for a configuration that could not be read.                    *)
Actions == {"RetryKey", "RetryChannel", "ReturnClient"}

FailureLevel(in) == IF in.network THEN "Channel" ELSE ClassifyHTTPResponse(in)

(* The failures for which the number of keys is read.                      *)
CountMatters(in) == FailureLevel(in) = "Key" /\ in.reset = NoReset

DecideAction(in, keyCount) ==
    LET final == IF CountMatters(in) /\ keyCount <= 1 THEN "Channel" ELSE FailureLevel(in)
    IN  CASE final = "Key"     -> "RetryKey"
          [] final = "Channel" -> "RetryChannel"
          [] OTHER             -> "ReturnClient"
=============================================================================
