-------------------------------- MODULE Shell --------------------------------
(***************************************************************************)
(* The shell around every command: what is read from stdin, the migration  *)
(* gate, the command's lookup and its flags, the master password, the      *)
(* fields asked on a terminal, the guard over a dry run, and the command's *)
(* own code, of which only what it asks, signs with and broadcasts is      *)
(* kept.  A person answers on the terminal, or never does; the clock       *)
(* stands while one is asked.                                              *)
(*                                                                         *)
(* What was typed, and what is on disk, is chosen where the code first     *)
(* looks at it.                                                            *)
(***************************************************************************)
EXTENDS Command, CommandTable

\* pipe: which --*-stdin flags were given.
ShellCommands == [family : {"shell"}, tty : BOOLEAN, pipe : {"none", "password", "other", "both"}]

Traits == {c.is : c \in Registry}

\* stage: whom the password is for; is: the command, once it is known; asked:
\* the question that is open; tries: at the password; clock: how often it was stopped.
ShellInit ==
    /\ cmd \in ShellCommands
    /\ mem = [stage |-> "upgrade", is |-> Asks, modes |-> {}, primed |-> FALSE, asked |-> "nothing",
              prompted |-> FALSE, tries |-> 0, pauses |-> 0]
    /\ net = [main |-> "none"]
    /\ Start("shell.start")

Refuse(code) == Say([claim |-> "none", code |-> code])
Keep == UNCHANGED <<cmd, left, net>>
Sync == Keep /\ UNCHANGED mem

Piped == cmd.pipe = "password"

\* Prompter.isTTY: until a command is known, it may ask.
IsTTY == cmd.tty /\ mem.is.asks

\* Prompter.#question, #readKey: not once the deadline has passed.
Ask(question) ==
    IF Expired THEN Refuse("timeout") /\ UNCHANGED mem
    ELSE /\ Goto("shell.ask")
         /\ mem' = [mem EXCEPT !.asked = question, !.pauses = @ + 1]

Answered(m) == [m EXCEPT !.asked = "nothing", !.pauses = @ - 1]

-----------------------------------------------------------------------------
(* Before the command. *)

\* Two secrets on one stdin, a configuration that cannot be read; else the command.
ShellStart ==
    /\ pc = "shell.start"
    /\ IF cmd.pipe = "both" THEN Refuse("invalid_option")
       ELSE \/ Refuse("config_error")
            \/ Goto(IF cmd.pipe = "none" THEN "shell.upgrade" ELSE "shell.stdin")
    /\ Sync

\* handleMeta: the version, the help or the schema of what was named; nothing on
\* stdin or on disk is looked at.
ShellHelp ==
    /\ pc = "shell.start"
    /\ cmd.pipe # "both"
    /\ Claim("none") \/ Refuse("unknown_command") \/ Refuse("family_mismatch")
    /\ Sync

\* loadStdin: once, to its end, or until the deadline.
ShellStdin ==
    /\ pc = "shell.stdin"
    /\ IF Expired THEN Refuse("timeout") ELSE Goto("shell.upgrade") \/ Refuse("secret_source_error")
    /\ Sync

\* MigrationService.run: with no one to ask, it goes on without consent.
ShellUpgrade ==
    /\ pc = "shell.upgrade"
    /\ \/ Goto("shell.dispatch") /\ UNCHANGED mem
       \/ IF IsTTY THEN Ask("upgrade") ELSE Goto("shell.consented") /\ UNCHANGED mem
    /\ Keep

\* cliMigrationPrompt: the password, if a stale wallet has a secret.
ShellConsented ==
    /\ pc = "shell.consented"
    /\ \/ Goto("shell.upgraded")
       \/ IF Piped \/ IsTTY THEN Goto("shell.prime") ELSE Refuse("migration_required")
    /\ Sync

\* The upgrade replaces the command.
ShellUpgraded ==
    /\ pc = "shell.upgraded"
    /\ Refuse("io_error") \/ Claim("none")
    /\ Sync

-----------------------------------------------------------------------------
(* The command and its input. *)

\* assertWaitIntentApplies
WaitApplies(is, modes) == is.sends /\ is.wait /\ modes = {}

\* assertKnownFlags: --account and --wait where the command takes them.
FlagsApply(is, modes, flags) ==
    /\ "account" \in flags => is.account
    /\ "wait" \in flags => WaitApplies(is, modes)

\* exclusiveRefine, refuseQuoteWithSendingFlags: one mode at most.
Exclusive(modes) == \A m, n \in modes : m = n

\* The target: a network for those that have one, of a family that binds them.
Targets(is) == IF ~is.network THEN {"none"} ELSE {"tron", "evm", "unknown"}
Bound(is, target) == target # "unknown" /\ (is.on # {} => target \in is.on)

\* secretsTtyOnly
GateRefusal(is) ==
    IF ~is.typed THEN "nothing"
    ELSE IF Piped THEN "invalid_option" ELSE IF ~(cmd.tty /\ is.asks) THEN "tty_required" ELSE "nothing"

\* dispatchNeutral, dispatchLogical: no such command, a flag it does not know, a network
\* it does not run on or without its capability; then the gate and the password.
ShellDispatch ==
    /\ pc = "shell.dispatch"
    /\ \/ Refuse("unknown_command") /\ UNCHANGED mem
       \/ \E is \in Traits : \E modes \in SUBSET is.modes, flags \in SUBSET {"account", "wait"},
             target \in Targets(is), known, capable \in BOOLEAN :
            /\ mem' = [mem EXCEPT !.stage = "command", !.is = is, !.modes = modes]
            /\ IF ~known \/ ~FlagsApply(is, modes, flags) THEN Refuse("invalid_option")
               ELSE IF ~Bound(is, target) THEN Refuse("family_mismatch")
               ELSE IF ~capable THEN Refuse("unsupported_network_capability")
               ELSE IF GateRefusal(is) # "nothing" THEN Refuse(GateRefusal(is))
               ELSE Goto(IF is.password \in {"establish", "verify"} THEN "shell.prime" ELSE "shell.fill")
    /\ Keep

PrimedFor ==
    IF mem.stage = "upgrade" THEN "shell.upgraded"
    ELSE IF mem.is.password \in {"establish", "verify"} THEN "shell.fill" ELSE "shell.run"

Primed == mem' = [Answered(mem) EXCEPT !.primed = TRUE] /\ Goto(PrimedFor)

\* primePassword: piped, asked for - three times at most, or until a new one
\* satisfies the policy and its confirmation - or required.
ShellPrime ==
    /\ pc = "shell.prime"
    /\ IF Piped THEN
            \/ mem' = [mem EXCEPT !.primed = TRUE] /\ Goto(PrimedFor)
            \/ (Refuse("auth_failed") \/ Refuse("weak_password")) /\ UNCHANGED mem
       ELSE IF ~IsTTY THEN Refuse("auth_required") /\ UNCHANGED mem
       ELSE IF mem.tries = 3 THEN Refuse("auth_failed") /\ UNCHANGED mem
       ELSE \/ Ask("password")
            \/ mem.stage = "command" /\ mem.is.password \in {"establish", "late establish"} /\ Ask("new password")
    /\ Keep

\* gapFillRequiredFields on a terminal, then the schema and the account.
ShellFill ==
    /\ pc = "shell.fill"
    /\ \/ IsTTY /\ Ask("field")
       \/ Refuse("missing_option") /\ UNCHANGED mem
       \/ Refuse("invalid_option") /\ UNCHANGED mem
       \/ mem.is.wallet /\ Refuse("account_not_found") /\ UNCHANGED mem
       \/ Exclusive(mem.modes) /\ Goto("shell.run") /\ UNCHANGED mem
    /\ Keep

\* Ctrl-C, or an answer; what is not accepted is asked again.
ShellAnswer ==
    /\ pc = "shell.ask"
    /\ \/ Refuse("aborted") /\ mem' = Answered(mem)
       \/ /\ mem.asked = "upgrade"
          /\ mem' = Answered(mem)
          /\ Goto("shell.consented") \/ Claim("none")
       \/ mem.asked \in {"password", "new password"} /\ Primed
       \/ /\ mem.asked = "password"
          /\ mem' = [Answered(mem) EXCEPT !.tries = @ + 1]
          /\ Goto("shell.prime")
       \/ mem.asked = "new password" /\ mem' = Answered(mem) /\ Goto("shell.prime")
       \/ mem.asked = "field" /\ mem' = Answered(mem) /\ Goto("shell.fill")
       \/ /\ mem.asked \in {"secret", "confirm", "choice"}
          /\ mem' = [Answered(mem) EXCEPT !.prompted = mem.asked # "secret"]
          /\ Goto("shell.run")
       \/ mem.asked = "secret" /\ mem' = [Answered(mem) EXCEPT !.prompted = TRUE] /\ Goto("shell.run")
       \/ mem.asked = "confirm" /\ mem' = Answered(mem) /\ Refuse("aborted")
    /\ Keep

-----------------------------------------------------------------------------
(* The command's own code. *)

Late == mem.is.password \in {"late establish", "late verify"}
Prompted == mem.is.prompt = "none" \/ mem.prompted
Ready == Prompted /\ (Late => mem.primed)

\* A secret after the password, a choice before it; a confirmation needs a
\* terminal or --yes, a choice has a default.
RunPrompts ==
    /\ pc = "shell.run"
    /\ ~Prompted
    /\ mem.is.prompt = "secret" /\ Late => mem.primed
    /\ \/ IF IsTTY THEN Ask(mem.is.prompt)
          ELSE /\ mem.is.prompt # "choice"
               /\ Refuse("tty_required")
               /\ UNCHANGED mem
       \/ /\ mem.is.prompt # "secret"
          /\ mem' = [mem EXCEPT !.prompted = TRUE]
          /\ UNCHANGED <<pc, said>>
    /\ Keep

RunPrimes ==
    /\ pc = "shell.run"
    /\ Late /\ ~mem.primed
    /\ mem.is.prompt = "choice" => mem.prompted
    /\ Goto("shell.prime")
    /\ Sync

\* masterPassword: read when a key is first used.
RunNeedsPassword ==
    /\ pc = "shell.run"
    /\ Ready
    /\ mem.is.auth /\ ~mem.primed
    /\ IF Piped THEN Refuse("auth_failed") ELSE Refuse("auth_required")
    /\ Sync

\* barredDuringDryRun
Barred == "dryRun" \in mem.modes

\* assertBroadcastAllowed and assertSubmitAdmitted, in the turn that sends.  A binding
\* that ignores the dry run is stopped; the other modes end before this.
RunBroadcasts ==
    /\ pc = "shell.run"
    /\ Ready
    /\ mem.is.sends
    /\ mem.modes \subseteq {"dryRun"}
    /\ IF Barred THEN Refuse("dry_run_violation") /\ UNCHANGED net
       ELSE IF ~Admitted THEN Refuse("timeout") /\ UNCHANGED net
       ELSE Goto("shell.sent") /\ net' = [net EXCEPT !.main = "asked"]
    /\ UNCHANGED <<cmd, left, mem>>

\* It fails, or it is done without having sent anything.
RunEnds ==
    /\ pc = "shell.run"
    /\ Ready
    /\ IF Expired THEN Refuse("timeout") ELSE Refuse("failed") \/ Claim("none")
    /\ Sync

\* The answer to the broadcast, or none in time.
RunReceipt ==
    /\ pc = "shell.sent"
    /\ \/ net.main \in {"taken", "ok", "failed"} /\ ~Expired /\ Claim("submitted")
       \/ net.main = "refused" /\ ~Expired /\ Refuse("rejected")
       \/ Claim("unknown")
    /\ Sync

ShellStep ==
    \/ ShellStart \/ ShellHelp \/ ShellStdin \/ ShellUpgrade \/ ShellConsented \/ ShellUpgraded
    \/ ShellDispatch \/ ShellPrime \/ ShellFill \/ ShellAnswer
    \/ RunPrompts \/ RunPrimes \/ RunNeedsPassword \/ RunBroadcasts \/ RunEnds \/ RunReceipt

Asking == pc = "shell.ask"

\* What ends by itself once the deadline has passed: all but a person's answer.
ShellPrompt == ~Asking /\ ShellStep

-----------------------------------------------------------------------------
\* Every refusal that tells the user what is missing is one the user can act on: a
\* command that wants a terminal says so to no one who has one, and none asks for
\* --password-stdin (auth_required, migration_required) that refuses it or was given it.
NoDeadEnd ==
    cmd.family = "shell" /\ Done /\ said # [claim |-> said.claim] =>
        /\ said.code = "tty_required" => ~cmd.tty
        /\ said.code \in {"auth_required", "migration_required"} => ~Piped
        /\ said.code = "auth_required" => ~mem.is.typed
        /\ said.code = "migration_required" => ~cmd.tty

=============================================================================
