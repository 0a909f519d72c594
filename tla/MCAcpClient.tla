---------------------------- MODULE MCAcpClient ----------------------------
(* AcpClient for TLC, where the application closes a session and resumes it  *)
(* while updates are on their way.                                           *)
EXTENDS AcpClient

MCLoads ==
    {[connects |-> 1, disconnects |-> 0, prompts |-> 0, resumes |-> 2, closes |-> 1,
      claims |-> 0, events |-> 2, takes |-> 0, drops |-> 0, faults |-> 0]}
=============================================================================
