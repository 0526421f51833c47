---------------------------- MODULE MCStandalone ----------------------------
(***************************************************************************)
(* Parts that share nothing, of which a behaviour uses one, chosen at the  *)
(* start: the APPEVENT handlers of a window, and the contributed libraries.*)
(***************************************************************************)
EXTENDS AppEventsProps, SmtpSessionProps, CryptFileProps, StreamDigestProps,
        Base64Props, XmlDocProps, PgCopyProps

CONSTANT a1

VARIABLE part

libraryVars == <<mailVars, cryptVars, digestVars, base64Vars, xmlVars, pgVars>>
standaloneVars == <<part, vars, libraryVars>>

StandaloneInit ==
  /\ part \in {"handlers", "mail", "crypt", "digest", "base64", "xml", "pg"}
  /\ Init
  /\ MailInit /\ CryptInit /\ DigestInit /\ Base64Init /\ XmlInit /\ PgInit
  /\ part # "mail" => program = [ignore |-> FALSE, trouble |-> "none"]
  /\ part # "pg" => blocking

Handlers ==
  /\ part = "handlers" /\ Next
  /\ UNCHANGED <<part, libraryVars>>
Mail ==
  /\ part = "mail" /\ MailNext
  /\ UNCHANGED <<part, vars, cryptVars, digestVars, base64Vars, xmlVars, pgVars>>
Crypt ==
  /\ part = "crypt" /\ CryptNext
  /\ UNCHANGED <<part, vars, mailVars, digestVars, base64Vars, xmlVars, pgVars>>
MessageDigest ==
  /\ part = "digest" /\ DigestNext
  /\ UNCHANGED <<part, vars, mailVars, cryptVars, base64Vars, xmlVars, pgVars>>
Encoding ==
  /\ part = "base64" /\ Base64Next
  /\ UNCHANGED <<part, vars, mailVars, cryptVars, digestVars, xmlVars, pgVars>>
Xml ==
  /\ part = "xml" /\ XmlNext
  /\ UNCHANGED <<part, vars, mailVars, cryptVars, digestVars, base64Vars, pgVars>>
Pg ==
  /\ part = "pg" /\ PgNext
  /\ UNCHANGED <<part, vars, mailVars, cryptVars, digestVars, base64Vars, xmlVars>>

StandaloneNext ==
  Handlers \/ Mail \/ Crypt \/ MessageDigest \/ Encoding \/ Xml \/ Pg

(* A reading client goes on (timeouts are no end of it: the server answers,
   or the connection ends), and the server answers what it was asked. *)
StandaloneSpec ==
  /\ StandaloneInit /\ [][StandaloneNext]_standaloneVars
  /\ WF_mailVars(Client) /\ WF_mailVars(Serve)

MCBytes == {0, 1, 127, 128, 255}
MCTexts == {<<"x">>, <<" ", " ">>, <<"x", " ", " ", "<">>, <<"&", "LF">>, <<"long">>}
MCSectionTexts == {<<"x">>, <<"<", "LF">>}
MCValues == {<<>>, <<"quote">>, <<"x", ",">>, <<"x", " ", "x", " ">>, <<"control", "x">>}
=============================================================================
