-------------------------- MODULE MCContextControl --------------------------
(* Instances of ContextControl for TLC. *)
EXTENDS ContextControl

\* What starts an attempt, ends the session or does both, and the user's quit.
MCOffered == {"FORCE_OFFLINE", "REAUTH", "UP", "DOWN", "MAC_CHANGED", "quit"}

\* The messages of a session whose server hands out the address.
MCDhcp == {"DHCP_RESULT", "IP_CHANGED", "HANDSHAKE", "OTHER_WANT_LOGOFF",
           "PROXY_RESULT", "quit"}

MCNone == {}
=============================================================================
