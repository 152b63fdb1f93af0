----------------------------- MODULE ErrorClass -----------------------------
(***************************************************************************)
(* How an error message is classified (src/devtunnel.rs).  The code looks  *)
(* for substrings in the whole message; a message is modelled by the set   *)
(* of the needle lists that match in it.  The message of a failed CLI call *)
(* quotes the call's arguments before the stderr text (err-cli-failed in   *)
(* i18n/en-US/app.ftl), and those hold the Tunnel ID: the needles that     *)
(* match in the ID ("401", "403", "404" in an ID such as web-4040.brs)     *)
(* match in every CLI failure about that tunnel.                           *)
(***************************************************************************)
EXTENDS Integers

CONSTANTS Tunnels,      \* Real Tunnel IDs
          IdNeedles,    \* [Tunnels -> SUBSET Needle]: what matches in the ID itself
          Causes        \* bound: the causes of failures that happen

\* The needle lists of is_auth_error, is_fatal_connect_error (its own three)
\* and is_missing_tunnel_error.
Needle == {"auth", "fatal", "missing"}

\* Why a call fails, and below what matches in the text it fails with.
\* "malformed": the text says "invalid arguments"; "garbled": the call worked
\* and its output is no JSON, for which the text says "invalid JSON".
Cause == {"network", "signin", "rejected", "malformed", "garbled", "gone"}

ASSUME ErrorConstants == /\ IdNeedles \in [Tunnels -> SUBSET Needle]
                         /\ Causes \subseteq Cause

CauseNeedles(c) == CASE c = "signin" -> {"auth"}
                     [] c \in {"rejected", "malformed"} -> {"fatal"}
                     [] c = "gone" -> {"missing"}
                     [] c \in {"network", "garbled"} -> {}

\* The message of a CLI call about t, and of an SDK call.
CliMessage(t, c) == IdNeedles[t] \cup CauseNeedles(c)

\* `devtunnel token`: with "token" among the arguments, "invalid" in the text is
\* the last pattern of is_auth_error.
MintMessage(t, c) ==
    CliMessage(t, c) \cup (IF c \in {"malformed", "garbled"} THEN {"auth"} ELSE {})
SdkMessage(c) == CauseNeedles(c)

IsAuthError(msg) == "auth" \in msg
IsMissingTunnelError(msg) == "missing" \in msg
IsFatalConnectError(msg) == "fatal" \in msg \/ IsMissingTunnelError(msg)

\* The order of the tests in host_group: auth first.
Classify(msg) == IF IsAuthError(msg) THEN "Auth"
                 ELSE IF IsFatalConnectError(msg) THEN "Fatal"
                 ELSE "Transient"

=============================================================================
