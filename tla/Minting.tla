---- MODULE Minting ----
(***************************************************************************)
(* minting: what one call of mint_ticket, renew_ticket or mint_keytab      *)
(* makes of the KDC's verdict.  Pure operators; TokenService runs them     *)
(* inside its request handlers.                                            *)
(*                                                                         *)
(* A mode is a way to run a subprocess:                                    *)
(*   "password"   mint_ticket with a password   (kinit, password on stdin) *)
(*   "keytab"     mint_ticket with a keytab     (kinit -k -t)              *)
(*   "renew"      renew_ticket                  (kinit -R)                 *)
(*   "bootstrap"  mint_keytab                   (cern-get-keytab)          *)
(***************************************************************************)

Modes == {"password", "keytab", "renew", "bootstrap"}

\* The modes that offer the user's password to the KDC.
PasswordModes == {"password", "bootstrap"}

----------------------------------------------------------------------------
(* The subprocess and the KDC behind it: not this repository's code.       *)

\* The answers the KDC has for each mode.
KdcVerdicts(mode) ==
    CASE mode = "renew" -> {"ok", "ticket_expired", "revoked"}
      [] mode = "keytab" -> {"ok", "bad_secret", "unknown", "revoked"}
      [] OTHER -> {"ok", "bad_secret", "unknown", "revoked", "password_expired"}

\* The texts a child that exits non-zero may leave on stderr, each the set of
\* markers minting.py looks for in it; "other" is any text with none of them.
\* verdict "none": the child gave up without an answer from the KDC.  What
\* msktutil's one-line summary is for the verdicts nobody has observed is not
\* known to this service, so cern-get-keytab may print it for any of them.
Stderr(mode, verdict) ==
    CASE mode = "bootstrap" /\ verdict \in {"bad_secret", "unknown"} ->
            {{"NO_CREDENTIALS"}, {"BAD_KEY", "NO_CREDENTIALS"}}
      [] mode = "bootstrap" /\ verdict \notin {"bad_secret", "unknown"} ->
            {{"NO_CREDENTIALS"}, {"other"}}
      [] mode = "password" /\ verdict = "bad_secret" -> {{"BAD_PASSWORD"}}
      [] mode = "keytab" /\ verdict = "bad_secret" -> {{"BAD_KEY"}}
      [] mode \in {"password", "keytab"} /\ verdict = "unknown" -> {{"UNKNOWN_PRINCIPAL"}}
      [] mode # "bootstrap" /\ verdict = "revoked" -> {{"REVOKED"}}
      [] mode = "password" /\ verdict = "password_expired" -> {{"PASSWORD_EXPIRED"}}
      [] mode = "renew" /\ verdict = "ticket_expired" -> {{"TICKET_EXPIRED"}}
      [] OTHER -> {{"other"}}

\* How subprocess.run can end.  faults names the failures the environment may
\* inject: "spawn" (OSError), "timeout" (the child is killed, whatever the KDC
\* has answered), "child" (a non-zero exit that says nothing of the credential)
\* and "output" (exit 0, and a file that is missing, empty, or no usable ccache).
FailedWith(texts) == [how : {"nonzero"}, stderr : texts, output : {"none"}]
RaisedBy(how) == [how : {how}, stderr : {{}}, output : {"none"}]
ExitedZero(files) == [how : {"exit0"}, stderr : {{}}, output : files]

Results(mode, verdict, faults) ==
    LET only(cond, results) == IF cond THEN results ELSE {}
    IN  only(verdict = "ok", ExitedZero({"good"}))
        \cup only(verdict = "ok" /\ "output" \in faults,
                  ExitedZero({"missing", "empty", "unparsable"}))
        \cup only(verdict = "ok" /\ "child" \in faults, FailedWith({{"other"}}))
        \cup only(verdict # "ok" /\ (verdict = "none" => "child" \in faults),
                  FailedWith(Stderr(mode, verdict)))
        \cup only(verdict = "none" /\ "spawn" \in faults, RaisedBy("oserror"))
        \cup only("timeout" \in faults, RaisedBy("timeout"))

----------------------------------------------------------------------------
(* The classifiers: the exception a non-zero exit becomes, first marker    *)
(* first.  "unclassified" is Python's None.                                *)

\* Mutant: an unknown principal is taken for a wrong password.
ClassifyPasswordLoose(stderr) ==
    IF stderr \cap {"BAD_PASSWORD", "UNKNOWN_PRINCIPAL"} # {} THEN "BadPasswordError"
    ELSE IF stderr \cap {"REVOKED", "PASSWORD_EXPIRED"} # {} THEN "AccountUnusableError"
    ELSE "unclassified"

ClassifyPassword(stderr) ==
    IF "BAD_PASSWORD" \in stderr THEN "BadPasswordError"
    ELSE IF "UNKNOWN_PRINCIPAL" \in stderr THEN "UnknownPrincipalError"
    ELSE IF stderr \cap {"REVOKED", "PASSWORD_EXPIRED"} # {} THEN "AccountUnusableError"
    ELSE "unclassified"

ClassifyKeytab(stderr) ==
    IF "BAD_KEY" \in stderr THEN "BadKeytabError"
    ELSE IF "UNKNOWN_PRINCIPAL" \in stderr THEN "UnknownPrincipalError"
    ELSE IF "REVOKED" \in stderr THEN "AccountUnusableError"
    ELSE "unclassified"

ClassifyRenew(stderr) ==
    IF "TICKET_EXPIRED" \in stderr THEN "TicketExpiredError" ELSE "unclassified"

ClassifyCernGetKeytab(stderr) ==
    IF stderr \cap {"BAD_KEY", "NO_CREDENTIALS"} # {} THEN "BadPasswordError"
    ELSE "unclassified"

Classify(mode, stderr) ==
    CASE mode = "password" -> ClassifyPassword(stderr)
      [] mode = "keytab" -> ClassifyKeytab(stderr)
      [] mode = "renew" -> ClassifyRenew(stderr)
      [] mode = "bootstrap" -> ClassifyCernGetKeytab(stderr)

\* What any non-zero exit raises.
ExitError(mode, stderr) ==
    IF Classify(mode, stderr) = "unclassified" THEN "MintingError" ELSE Classify(mode, stderr)

----------------------------------------------------------------------------
(* What the coroutine returns or raises once the subprocess has ended.     *)

\* _run_subprocess translates a failed spawn and an expired timeout.
RunError == "MintingError"

\* mint_ticket reads the file before it parses it.
MintTicket(mode, r) ==
    CASE r.how \in {"oserror", "timeout"} -> RunError
      [] r.how = "nonzero" -> ExitError(mode, r.stderr)
      [] r.output \in {"missing", "empty"} -> "MintingError"
      [] r.output = "unparsable" -> "CcacheParseError"
      [] OTHER -> "ok"

\* renew_ticket does not guard the read, so a missing file stays an OSError.
RenewTicket(r) ==
    CASE r.how \in {"oserror", "timeout"} -> RunError
      [] r.how = "nonzero" -> ExitError("renew", r.stderr)
      [] r.output = "missing" -> "OSError"
      [] r.output = "empty" -> "MintingError"
      [] r.output = "unparsable" -> "CcacheParseError"
      [] OTHER -> "ok"

\* mint_keytab never parses the keytab: any non-empty file will do.
MintKeytab(r) ==
    CASE r.how \in {"oserror", "timeout"} -> RunError
      [] r.how = "nonzero" -> ExitError("bootstrap", r.stderr)
      [] r.output \in {"missing", "empty"} -> "MintingError"
      [] OTHER -> "ok"

Outcome(mode, r) ==
    CASE mode = "renew" -> RenewTicket(r)
      [] mode = "bootstrap" -> MintKeytab(r)
      [] OTHER -> MintTicket(mode, r)
====
