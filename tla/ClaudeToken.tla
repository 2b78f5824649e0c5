----------------------------- MODULE ClaudeToken -----------------------------
(***************************************************************************)
(* Claude Code's credential file has two writers: Claude Code, and Pulse,  *)
(* which renews the access token to ask for the quota (fetchClaudeUsage    *)
(* and doRefreshClaudeToken of quota-collector.ts).  The server may give a *)
(* new refresh token with every renewal and then refuses the old one, so   *)
(* whoever renews must write the file or the other is logged out.          *)
(*                                                                         *)
(* Tokens are numbered in the order the server gives them out.  External:  *)
(* the server and Claude Code, which renews as Pulse does.                 *)
(***************************************************************************)
EXTENDS Integers

CONSTANTS MaxTokens  \* bound: refresh tokens the server gives out

ASSUME ClaudeTokenAssumption == MaxTokens \in Nat

VARIABLES
  file,      \* the credentials on disk
  valid,     \* the refresh token the server accepts
  issued,    \* the last one it gave out
  pulse,     \* [at |-> step of fetchClaudeUsage, raw, cur, new |-> credentials]
  code,      \* the same for Claude Code
  result,    \* the last result of fetchClaudeUsage
  \* Read by properties only:
  overwritten  \* a login was overwritten, or a renewal not written

tokenVars == <<file, valid, issued, pulse, code, result, overwritten>>

\* life is that of the access token: "good", "near" the margin, or "over".
Credentials == [refresh : 0..MaxTokens, life : {"good", "near", "over"}]
Nothing == [refresh |-> -1, life |-> "over"]
Idle == [at |-> "idle", raw |-> Nothing, cur |-> Nothing, new |-> Nothing]

TokenInit ==
  /\ file \in [refresh : {0}, life : {"near", "over"}]
  /\ valid = 0 /\ issued = 0
  /\ pulse = Idle /\ code = Idle
  /\ result = "none" /\ overwritten = FALSE

\* Use the token in hand, or the file's as first read; ask for the quota.
Ask(life) == IF life = "over" THEN "auth" ELSE "ok"
Finish(life) == result' = Ask(life) /\ pulse' = Idle

FetchClaudeUsage ==
  /\ pulse.at = "idle"
  /\ IF file.life = "good" THEN Finish("good")
     ELSE pulse' = [Idle EXCEPT !.at = "renew", !.raw = file] /\ UNCHANGED result
  /\ UNCHANGED <<file, valid, issued, code, overwritten>>

\* The file is read once more before it is renewed.
DoRefreshClaudeToken ==
  /\ pulse.at = "renew"
  /\ IF file.life = "good" THEN Finish("good")
     ELSE pulse' = [pulse EXCEPT !.at = "post", !.cur = file] /\ UNCHANGED result
  /\ UNCHANGED <<file, valid, issued, code, overwritten>>

\* The server answers a renewal with new credentials, or refuses.
Renewed(sent, reply) ==
  /\ sent.refresh = valid
  /\ \E n \in {valid, issued + 1} :  \* it need not give a new refresh token
       /\ n <= MaxTokens
       /\ valid' = n
       /\ issued' = IF n = valid THEN issued ELSE n
       /\ reply = [refresh |-> n, life |-> "good"]

\* Mutant: what is written keeps the refresh token that was used.
NextFile_OldRefresh(new) == [pulse.cur EXCEPT !.life = new.life]
\* doRefreshClaudeToken puts the answer over the file's fields.
NextFile(new) == [pulse.cur EXCEPT !.life = new.life, !.refresh = new.refresh]

PostAnswered ==
  /\ pulse.at = "post"
  /\ \/ \E new \in Credentials :
          /\ Renewed(pulse.cur, new)
          /\ \/ pulse' = [pulse EXCEPT !.at = "write", !.new = NextFile(new)]
                /\ UNCHANGED <<result, overwritten>>
             \/ Finish(pulse.raw.life) /\ overwritten' = TRUE  \* the answer is lost
     \/ pulse.cur.refresh # valid /\ Finish(pulse.raw.life) /\ UNCHANGED <<valid, issued, overwritten>>
     \/ Finish(pulse.raw.life) /\ UNCHANGED <<valid, issued, overwritten>>  \* never arrived
  /\ UNCHANGED <<file, code>>

\* The new file is renamed over the old one, or is not written at all; the
\* new access token is used either way.
WriteBack ==
  /\ pulse.at = "write"
  /\ \/ /\ file' = pulse.new
        /\ overwritten' = (overwritten \/ file.refresh # pulse.cur.refresh)
     \/ file' = file /\ overwritten' = TRUE
  /\ Finish("good")
  /\ UNCHANGED <<valid, issued, code>>

\* Pulse is quit in the middle.
Quit ==
  /\ pulse # Idle /\ pulse' = Idle /\ result' = "none"
  /\ overwritten' = (overwritten \/ pulse.at = "write")
  /\ UNCHANGED <<file, valid, issued, code>>

(***************************************************************************)
(* External.                                                               *)
(***************************************************************************)
CodeReads ==
  /\ code.at = "idle" /\ file.life # "good"
  /\ code' = [Idle EXCEPT !.at = "post", !.cur = file]
  /\ UNCHANGED <<file, valid, issued, pulse, result, overwritten>>
CodeAnswered ==
  /\ code.at = "post"
  /\ \/ \E new \in Credentials :
          Renewed(code.cur, new) /\ code' = [code EXCEPT !.at = "write", !.new = new]
     \/ code.cur.refresh # valid /\ code' = Idle /\ UNCHANGED <<valid, issued>>
  /\ UNCHANGED <<file, pulse, result, overwritten>>
CodeWrites ==
  /\ code.at = "write"
  /\ file' = code.new /\ code' = Idle
  /\ overwritten' = (overwritten \/ file.refresh # code.cur.refresh)
  /\ UNCHANGED <<valid, issued, pulse, result>>
\* The user logs in again.
Login ==
  /\ issued < MaxTokens
  /\ issued' = issued + 1 /\ valid' = issued + 1
  /\ file' = [refresh |-> issued + 1, life |-> "good"]
  /\ UNCHANGED <<pulse, code, result, overwritten>>
TokenAges ==
  /\ file.life # "over"
  /\ file' = [file EXCEPT !.life = IF @ = "good" THEN "near" ELSE "over"]
  /\ UNCHANGED <<valid, issued, pulse, code, result, overwritten>>

TokenNext ==
  \/ FetchClaudeUsage \/ DoRefreshClaudeToken \/ PostAnswered \/ WriteBack \/ Quit
  \/ CodeReads \/ CodeAnswered \/ CodeWrites \/ Login \/ TokenAges

(***************************************************************************)
(* Properties.                                                             *)
(***************************************************************************)
TokenTypeOK ==
  /\ file \in Credentials
  /\ valid \in 0..issued /\ issued \in 0..MaxTokens
  /\ pulse.at \in {"idle", "renew", "post", "write"}
  /\ pulse.at # "idle" => pulse.raw \in Credentials
  /\ pulse.at \in {"post", "write"} => pulse.cur \in Credentials

\* With two programs renewing the same login at once, the file ends up with
\* the refresh token the server accepts, unless a renewal could not be
\* written or a login came in the middle of one.
LoginIsKept ==
  pulse.at # "write" /\ code.at # "write" /\ ~overwritten => file.refresh = valid
=============================================================================
