---------------------------- MODULE SmtpSession ----------------------------
(***************************************************************************)
(* TSmtp (socket/tsmtp.prg) over TSocket (tsocket.prg, socket.c): a mail   *)
(* client that sends a command, reads an answer of one or more lines and   *)
(* goes on by the code of the answer's first line.  TCP keeps the lines in *)
(* order; what can go wrong is the server's refusal, the end of the        *)
(* connection, and, if the program set SetReceiveTimeout, an answer that   *)
(* comes after the client gave up waiting and is read in place of the next.*)
(***************************************************************************)
EXTENDS Naturals, Sequences

CONSTANTS
  MaxRcpts, \* bound: recipients of a mail
  MaxSends, \* bound: calls of Send
  MaxLines  \* bound: lines of an answer

ASSUME SmtpAssumption ==
  MaxRcpts \in Nat \ {0} /\ MaxSends \in Nat /\ MaxLines \in Nat \ {0}

VARIABLES
  pc,        \* the answer the client waits for, "idle" between calls
  conn,      \* "none", "up", or "shut" by the server
  toServer,  \* commands under way: [verb, arg, n]; arg is a recipient,
             \* or <<send, 0>>
  toClient,  \* lines under way: [code, last, n]; n is the command answered
  got,       \* GetLines: the code of the first line read, or NoCode
  rcpts,     \* Send: recipients not yet named; a recipient is <<send, i>>
  result,    \* what the last Connect, Send or Close returned
  program,   \* chosen at the start: bIgnoreTOError, and one trouble at most:
             \* "timeout" if receiving times out, "dot" if the mail holds a
             \* line with a single dot, "rude" if the server refuses with 550
             \* or 554, which Send takes for 250 and 354
  server,    \* the server: data mode, open transaction and its recipients
  sends, asked, \* calls of Send; recipients of the last one
  sent,      \* commands sent on this connection
  accepted,  \* for the properties: mails the server took over on it
  late       \* for the properties: a wait on this connection timed out

mailVars == <<pc, conn, toServer, toClient, got, rcpts, result, program,
              server, sends, asked, sent, accepted, late>>

-----------------------------------------------------------------------------
(* TSocket                                                                 *)

NoRcpt == <<sends, 0>>
NoCode == "none" \* of an answer without a line

(* SocketSend fails when there is no socket; a connection the server shut  *)
(* still takes it                                                          *)
SendString(verb, arg) ==
  /\ sent' = sent + 1
  /\ toServer' = IF conn = "up"
                 THEN Append(toServer, [verb |-> verb, arg |-> arg, n |-> sent + 1])
                 ELSE toServer

Quiet == UNCHANGED <<sent, toServer>>

(* SocketConnect fails (the socket it made is never closed), or the server *)
(* greets or refuses                                                       *)
Connect(code) ==
  /\ pc = "idle"
  /\ conn = "none"
  /\ late' = FALSE /\ accepted' = <<>>
  /\ sent' = 0 /\ toServer' = <<>>
  /\ \/ /\ code = "fail"
        /\ result' = FALSE
        /\ UNCHANGED <<pc, conn, toClient, got, server>>
     \/ /\ code # "fail"
        /\ conn' = "up"
        /\ toClient' = <<[code |-> code, last |-> TRUE, n |-> 0]>>
        /\ server' = [data |-> FALSE, open |-> FALSE, rcpts |-> {}]
        /\ pc' = "banner"
        /\ got' = NoCode
        /\ UNCHANGED result
  /\ UNCHANGED <<rcpts, program, sends, asked>>

-----------------------------------------------------------------------------
(* What each method does with an answer                                    *)

Done(r) == pc' = "idle" /\ result' = r /\ Quiet /\ UNCHANGED <<conn, rcpts>>
Ask(verb, arg, wait) ==
  SendString(verb, arg) /\ pc' = wait /\ UNCHANGED <<conn, result, rcpts>>

AskRcpts ==
  \/ /\ rcpts # <<>>
     /\ Ask("RCPT", Head(rcpts), "rcpt")
  \/ /\ rcpts = <<>>
     /\ Ask("DATA", NoRcpt, "data")

(* Faulty: the answer to MAIL FROM is not looked at *)
AfterMailUnchecked(code) == AskRcpts

(* Send.  No refusal ends the transaction: there is no RSET.               *)
AfterMail(code) ==
  \/ code \in {"250", "550"} /\ AskRcpts
  \/ code \notin {"250", "550"} /\ Done(FALSE)

AfterRcpt(code) ==
  LET rest == Tail(rcpts)
  IN  \/ /\ code = "250" \/ program.ignore
         /\ rcpts' = rest
         /\ \/ rest # <<>> /\ SendString("RCPT", Head(rest)) /\ pc' = "rcpt"
            \/ rest = <<>> /\ SendString("DATA", NoRcpt) /\ pc' = "data"
         /\ UNCHANGED <<conn, result>>
      \/ /\ code # "250" /\ ~program.ignore
         /\ Done(FALSE)

(* Faulty: the mail is sent whatever the server said; any answer is good   *)
AfterDataUnchecked(code) == Ask("TEXT", NoRcpt, "text")
AfterTextUnchecked(code) == Done(TRUE)

AfterData(code) ==
  \/ code \in {"354", "554"} /\ Ask("TEXT", NoRcpt, "text")
  \/ code \notin {"354", "554"} /\ Done(FALSE)

AfterText(code) == Done(code \in {"250", "550"})

(* Connect: returns .T. also if EHLO and HELO are refused                  *)
AfterBanner(code) ==
  \/ code = "220" /\ Ask("EHLO", NoRcpt, "ehlo")
  \/ code # "220" /\ Done(FALSE)
AfterEhlo(code) ==
  \/ code = "250" /\ Done(TRUE)
  \/ code # "250" /\ Ask("HELO", NoRcpt, "helo")

(* Faulty: the commands of this connection are left for the next *)
AfterQuitLeaves ==
  /\ pc' = "idle" /\ result' = TRUE
  /\ conn' = "none"
  /\ Quiet
  /\ UNCHANGED rcpts

(* Close: whatever the answer to QUIT was                                  *)
AfterQuit ==
  /\ pc' = "idle" /\ result' = TRUE
  /\ conn' = "none"
  /\ toServer' = <<>> /\ sent' = 0
  /\ UNCHANGED rcpts

Answered(code) ==
  /\ \/ pc = "banner" /\ AfterBanner(code)
     \/ pc = "ehlo" /\ AfterEhlo(code)
     \/ pc = "helo" /\ Done(TRUE)
     \/ pc = "mail" /\ AfterMail(code)
     \/ pc = "rcpt" /\ AfterRcpt(code)
     \/ pc = "data" /\ AfterData(code)
     \/ pc = "text" /\ AfterText(code)
     \/ pc = "quit" /\ AfterQuit
  /\ UNCHANGED <<program, server, sends, asked, accepted>>

(* Faulty: every line is taken for the last one; none is                   *)
LastLineAny(line) == TRUE
LastLineNone(line) == FALSE

(* The fourth character of the last line of an answer is a space           *)
LastLine(line) == line.last

(* GetLines with ReceiveLine: reads a line                                 *)
ReadLine ==
  LET line == Head(toClient)
      code == IF got = NoCode THEN line.code ELSE got
  IN  /\ pc # "idle"
      /\ toClient # <<>>
      /\ \/ /\ ~LastLine(line)
            /\ got' = code
            /\ toClient' = Tail(toClient)
            /\ UNCHANGED <<pc, conn, toServer, rcpts, result, program, server,
                           sends, asked, sent, accepted>>
         \/ /\ LastLine(line)
            /\ got' = NoCode
            /\ toClient' = IF pc = "quit" THEN <<>> ELSE Tail(toClient)
            /\ Answered(code)
      /\ UNCHANGED late

(* ReceiveLine returns an empty string when the wait times out or the      *)
(* server has shut the connection; the answer is what was read before      *)
ReadNothing ==
  /\ pc # "idle"
  /\ toClient = <<>>
  /\ \/ conn = "shut" /\ UNCHANGED late
     \/ conn = "up" /\ program.trouble = "timeout" /\ late' = TRUE
  /\ got' = NoCode
  /\ UNCHANGED toClient
  /\ Answered(got)

-----------------------------------------------------------------------------
(* Calls of the program                                                    *)

(* Bound: a program whose wait timed out goes on with Close *)
Send(n) ==
  /\ pc = "idle"
  /\ conn # "none"
  /\ ~late
  /\ sends < MaxSends
  /\ sends' = sends + 1
  /\ rcpts' = [i \in 1 .. n |-> <<sends + 1, i>>]
  /\ asked' = n
  /\ SendString("MAIL", <<sends + 1, 0>>)
  /\ pc' = "mail"
  /\ UNCHANGED <<conn, toClient, got, result, program, server, accepted, late>>

Close ==
  /\ pc = "idle"
  /\ conn # "none"
  /\ Ask("QUIT", NoRcpt, "quit")
  /\ UNCHANGED <<toClient, got, program, server, sends, asked, accepted, late>>

-----------------------------------------------------------------------------
(* The server: answers commands in their order.  (External.)               *)

Refusals == IF program.trouble = "rude" THEN {"501", "550", "554"} ELSE {"501"}

(* The answers to the command c and the server's state after each *)
Answers(c) ==
  LET s == server
      good(code, t) == <<<<code>>, t>>
      bad == {<<<<code>>, s>> : code \in Refusals}
  IN  CASE c.verb = "MAIL" ->
             IF s.open THEN {good("503", s)}
             ELSE bad \cup {good("250", [s EXCEPT !.open = TRUE])}
        [] c.verb = "RCPT" ->
             IF ~s.open THEN {good("503", s)}
             ELSE bad \cup {good("250", [s EXCEPT !.rcpts = @ \cup {c.arg}])}
        [] c.verb = "DATA" ->
             IF s.rcpts = {} THEN {good("503", s)}
             ELSE bad \cup {good("354", [s EXCEPT !.data = TRUE])}
        [] c.verb = "TEXT" ->
             IF ~s.data THEN {<<<<"500", "500">>, s>>}
             ELSE LET done == [s EXCEPT !.data = FALSE, !.open = FALSE, !.rcpts = {}]
                      lines(code) == IF program.trouble = "dot" THEN <<code, "500">> ELSE <<code>>
                  IN  {<<lines(code), done>> : code \in Refusals \cup {"250"}}
        [] OTHER -> bad \cup {good("250", s)}

(* An answer of several lines: the last one is marked as such *)
Lines(code, k, n) == [i \in 1 .. k |-> [code |-> code, last |-> i = k, n |-> n]]

Serve ==
  /\ conn = "up"
  /\ toServer # <<>>
  /\ LET c == Head(toServer)
         isText == server.data /\ c.verb # "TEXT"
     IN  /\ toServer' = Tail(toServer)
         /\ \/ /\ isText
               /\ UNCHANGED <<toClient, server, accepted>>
            \/ /\ ~isText
               /\ \E a \in Answers(c), k \in 1 .. MaxLines :
                    /\ toClient' = toClient \o Lines(a[1][1], k, c.n)
                         \o (IF Len(a[1]) > 1 THEN Lines(a[1][2], 1, c.n) ELSE <<>>)
                    /\ server' = a[2]
                    /\ accepted' =
                         IF c.verb = "TEXT" /\ server.data /\ a[1][1] = "250"
                         THEN Append(accepted, [send |-> c.arg[1], rcpts |-> server.rcpts])
                         ELSE accepted
  /\ UNCHANGED <<pc, conn, got, rcpts, result, program, sends, asked, sent, late>>

Shut ==
  /\ conn = "up"
  /\ conn' = "shut"
  /\ toServer' = <<>>
  /\ UNCHANGED <<pc, toClient, got, rcpts, result, program, server, sends, asked,
                 sent, accepted, late>>

MailInit ==
  /\ pc = "idle" /\ conn = "none"
  /\ toServer = <<>> /\ toClient = <<>>
  /\ got = NoCode /\ rcpts = <<>> /\ result = FALSE
  /\ program \in [ignore : BOOLEAN, trouble : {"none", "timeout", "dot", "rude"}]
  /\ server = [data |-> FALSE, open |-> FALSE, rcpts |-> {}]
  /\ sends = 0 /\ asked = 0 /\ sent = 0 /\ accepted = <<>> /\ late = FALSE

Client == ReadLine \/ ReadNothing
MailNext ==
  \/ \E code \in {"220", "501", "fail"} : Connect(code)
  \/ \E n \in 1 .. MaxRcpts : Send(n)
  \/ Close \/ Client \/ Serve \/ Shut

MailSpec == MailInit /\ [][MailNext]_mailVars
=============================================================================
