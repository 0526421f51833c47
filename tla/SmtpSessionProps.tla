-------------------------- MODULE SmtpSessionProps --------------------------
(***************************************************************************)
(* Properties of a mail session.                                           *)
(***************************************************************************)
EXTENDS SmtpSession, FiniteSets

Codes == {"220", "250", "354", "501", "503", "550", "554", "500"}

(* No wait timed out, the server uses 550 and 554 for nothing that Send    *)
(* takes for a success, and no line of the mail is a single dot            *)
Clean == ~late /\ program.trouble \notin {"dot", "rude"}

(* The type invariant of the session; without a connection nothing is      *)
(* under way in it.                                                        *)
SmtpTypeOK ==
  /\ pc \in {"idle", "banner", "ehlo", "helo", "mail", "rcpt", "data", "text", "quit"}
  /\ conn \in {"none", "up", "shut"}
  /\ toServer \in Seq([verb : {"EHLO", "HELO", "MAIL", "RCPT", "DATA", "TEXT", "QUIT"},
                       arg : (0 .. MaxSends) \X (0 .. MaxRcpts),
                       n : Nat])
  /\ toClient \in Seq([code : Codes, last : BOOLEAN, n : Nat])
  /\ got \in Codes \cup {NoCode}
  /\ rcpts \in Seq((1 .. MaxSends) \X (1 .. MaxRcpts))
  /\ sends \in 0 .. MaxSends /\ asked \in 0 .. MaxRcpts /\ sent \in Nat
  /\ accepted \in Seq([send : 1 .. MaxSends, rcpts : SUBSET ((1 .. MaxSends) \X (1 .. MaxRcpts))])
  /\ result \in BOOLEAN /\ late \in BOOLEAN
  /\ conn = "none" => pc = "idle" /\ toServer = <<>> /\ toClient = <<>>

(* GetLines reads an answer to its last line and no further, also when it  *)
(* has many lines: what the client reads next always answers the command   *)
(* it sent last, and between calls nothing is left to read.                *)
AnswersInStep ==
  Clean => IF pc = "idle" THEN toClient = <<>>
           ELSE \A i \in DOMAIN toClient : toClient[i].n = sent

(* A mail goes to recipients of the Send that sent it and, unless refused  *)
(* recipients are ignored, to all of them, although Send leaves the        *)
(* server's transaction open when it gives up.                             *)
RecipientsOfThisSend ==
  Clean => \A i \in DOMAIN accepted :
    /\ \A r \in accepted[i].rcpts : r[1] = accepted[i].send
    /\ ~program.ignore /\ accepted[i].send = sends => Cardinality(accepted[i].rcpts) = asked

(* Send returns .T. exactly if the server took the mail over (as far as    *)
(* can be known: not if the connection ended before the answer).           *)
SendTellsTheTruth ==
  [][Clean /\ conn = "up" /\ pc \in {"mail", "rcpt", "data", "text"} /\ pc' = "idle" =>
       (result' <=> \E i \in DOMAIN accepted : accepted[i].send = sends)]_mailVars

(* Every call returns: no answer, however many lines it has and however it *)
(* is cut off, leaves the client waiting for another line.                 *)
CallReturns == (pc # "idle") ~> (pc = "idle")
=============================================================================
