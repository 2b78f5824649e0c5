----------------------------- MODULE QuotaProofs -----------------------------
(***************************************************************************)
(* Proofs about the parts of the quota that share no state: the login with *)
(* its two writers, for any number of tokens, the collector, for any       *)
(* intervals, waits and windows, and what is counted in the logs and said  *)
(* of the reset, for any messages, files and times.  The specification is  *)
(* that of the run: each step is of one part.                              *)
(***************************************************************************)
EXTENDS MCQuota, WellFoundedInduction, FiniteSetTheorems, SequenceTheorems, TLAPS

\* The specification without its fairness.
LEMMA SafeSpec == Spec => Init /\ [][Next]_vars
BY PTL DEF Spec

(***************************************************************************)
(* The login                                                               *)
(***************************************************************************)
Known == Credentials \cup {Nothing}
Renewals == [at : {"idle", "renew", "post", "write"}, raw : Known, cur : Known, new : Known]
TokenTypes ==
  /\ file \in Credentials
  /\ issued \in 0..MaxTokens /\ valid = issued
  /\ pulse \in Renewals /\ code \in Renewals /\ code.at # "renew"

\* A renewal in progress: of credentials that were once in the file, and what is
\* about to be written is no older than they are, nor newer than the server's.
Renewing(p) ==
  /\ p.at = "post" => p.cur \in Credentials
  /\ p.at = "write" =>
       /\ p.cur \in Credentials /\ p.new \in Credentials
       /\ p.cur.refresh <= p.new.refresh /\ p.new.refresh <= valid
FromTheFile(p) == p.at \in {"post", "write"} => p.cur.refresh <= file.refresh

\* The server accepts a refresh token that was replaced only once.
OneReplaces ==
  pulse.at = "write" /\ code.at = "write" /\ pulse.cur.refresh = code.cur.refresh =>
    pulse.new.refresh = pulse.cur.refresh \/ code.new.refresh = code.cur.refresh

\* The token the server accepts is in the file, or with a writer that replaces what
\* is in the file.
Holds(p) == p.at = "write" /\ p.new.refresh = valid /\ p.cur.refresh = file.refresh

TokenInv ==
  /\ TokenTypes
  /\ Renewing(pulse) /\ (pulse.at # "idle" => pulse.raw \in Credentials) /\ Renewing(code)
  /\ file.refresh <= valid /\ OneReplaces
  /\ ~overwritten =>
       /\ FromTheFile(pulse) /\ FromTheFile(code)
       /\ file.refresh = valid \/ Holds(pulse) \/ Holds(code)

\* The records the actions build.
LEMMA TokenRecords ==
  /\ Nothing \in Known /\ Credentials \subseteq Known
  /\ Idle \in Renewals /\ Idle.at = "idle"
  /\ \A c \in Credentials : c.refresh \in 0..MaxTokens /\ c.life \in {"good", "near", "over"}
  /\ \A r \in Known : r.refresh \in Int
BY ClaudeTokenAssumption DEF Known, Credentials, Nothing, Idle, Renewals

\* A step that only ends what Pulse does, or only lets it look at the file.
LEMMA PulseElsewhere ==
  ASSUME TokenInv, NEW p \in Renewals, pulse' = p, p.at \in {"idle", "renew"},
         p.at # "idle" => p.raw \in Credentials,
         UNCHANGED <<file, valid, issued, code>>,
         pulse.at = "write" => overwritten', overwritten => overwritten'
  PROVE  TokenInv'
BY DEF TokenInv, TokenTypes, Renewing, FromTheFile, OneReplaces, Holds

\* Pulse sends what it has just read.
LEMMA PulsePosts ==
  ASSUME TokenInv, pulse.at = "renew", pulse' = [pulse EXCEPT !.at = "post", !.cur = file],
         UNCHANGED <<file, valid, issued, code, overwritten>>
  PROVE  TokenInv'
<1>1. /\ pulse' \in Renewals /\ pulse'.at = "post" /\ pulse'.cur = file /\ pulse'.raw = pulse.raw
      /\ file \in Credentials
  BY TokenRecords DEF TokenInv, TokenTypes, Renewals
<1>2. file.refresh <= file.refresh
  BY <1>1, TokenRecords
<1> QED BY <1>1, <1>2 DEF TokenInv, TokenTypes, Renewing, FromTheFile, OneReplaces, Holds

\* The server answers a renewal: what it accepts is new, or as before.
LEMMA ServerRenews ==
  ASSUME TokenInv, NEW sent \in Credentials, NEW reply \in Credentials, Renewed(sent, reply)
  PROVE  /\ sent.refresh = valid /\ reply.refresh = valid' /\ valid' = issued'
         /\ valid <= valid' /\ valid \in Nat /\ valid' \in 0..MaxTokens
         /\ reply.life = "good"
BY ClaudeTokenAssumption DEF TokenInv, TokenTypes, Renewed

\* Pulse has the answer of the server.
LEMMA PulseRenews ==
  ASSUME TokenInv, pulse.at = "post", NEW new \in Credentials, Renewed(pulse.cur, new),
         pulse' = [pulse EXCEPT !.at = "write", !.new = NextFile(new)],
         UNCHANGED <<file, code, overwritten>>
  PROVE  TokenInv'
<1>1. /\ pulse.cur \in Credentials /\ pulse \in Renewals /\ code \in Renewals
      /\ file \in Credentials /\ file.refresh <= valid
  BY DEF TokenInv, TokenTypes, Renewing
<1>2. NextFile(new) \in Credentials /\ NextFile(new).refresh = new.refresh
  BY <1>1 DEF NextFile, Credentials
<1>3. /\ pulse.cur.refresh = valid /\ new.refresh = valid' /\ valid' = issued'
      /\ valid <= valid' /\ valid \in Nat /\ valid' \in 0..MaxTokens
  BY <1>1, ServerRenews
<1>4. /\ pulse' \in Renewals /\ pulse'.at = "write" /\ pulse'.new = NextFile(new)
      /\ pulse'.cur = pulse.cur /\ pulse'.raw = pulse.raw
  BY <1>1, <1>2, TokenRecords DEF Renewals
<1>5. file.refresh \in 0..MaxTokens /\ code.cur.refresh \in Int /\ code.new.refresh \in Int
  BY <1>1, TokenRecords DEF Renewals
<1>6. TokenTypes' /\ Renewing(pulse)' /\ Renewing(code)' /\ file.refresh <= valid'
  <2>1. Renewing(code)'
    BY <1>3, <1>5 DEF TokenInv, Renewing
  <2> QED BY <1>1, <1>2, <1>3, <1>4, <1>5, <2>1 DEF TokenInv, TokenTypes, Renewing
<1>7. OneReplaces'
  BY <1>2, <1>3, <1>4, <1>5 DEF TokenInv, OneReplaces, Renewing
<1>8. ~overwritten => file.refresh = valid
  BY <1>1, <1>3, <1>5 DEF TokenInv, FromTheFile
<1>9. ~overwritten' => FromTheFile(pulse)' /\ FromTheFile(code)' /\ Holds(pulse)'
  BY <1>2, <1>3, <1>4, <1>8 DEF TokenInv, FromTheFile, Holds
<1> QED BY <1>4, <1>6, <1>7, <1>9 DEF TokenInv

\* Claude Code has the answer of the server.
LEMMA CodeRenews ==
  ASSUME TokenInv, code.at = "post", NEW new \in Credentials, Renewed(code.cur, new),
         code' = [code EXCEPT !.at = "write", !.new = new],
         UNCHANGED <<file, pulse, overwritten>>
  PROVE  TokenInv'
<1>1. /\ code.cur \in Credentials /\ pulse \in Renewals /\ code \in Renewals
      /\ file \in Credentials /\ file.refresh <= valid
  BY DEF TokenInv, TokenTypes, Renewing
<1>3. /\ code.cur.refresh = valid /\ new.refresh = valid' /\ valid' = issued'
      /\ valid <= valid' /\ valid \in Nat /\ valid' \in 0..MaxTokens
  BY <1>1, ServerRenews
<1>4. /\ code' \in Renewals /\ code'.at = "write" /\ code'.new = new
      /\ code'.cur = code.cur /\ code'.raw = code.raw
  BY <1>1, TokenRecords DEF Renewals
<1>5. file.refresh \in 0..MaxTokens /\ pulse.cur.refresh \in Int /\ pulse.new.refresh \in Int
  BY <1>1, TokenRecords DEF Renewals
<1>6. TokenTypes' /\ Renewing(pulse)' /\ Renewing(code)' /\ file.refresh <= valid'
  <2>1. Renewing(pulse)'
    BY <1>3, <1>5 DEF TokenInv, Renewing
  <2> QED BY <1>1, <1>3, <1>4, <1>5, <2>1 DEF TokenInv, TokenTypes, Renewing
<1>7. OneReplaces'
  BY <1>3, <1>4, <1>5 DEF TokenInv, OneReplaces, Renewing
<1>8. ~overwritten => file.refresh = valid
  BY <1>1, <1>3, <1>5 DEF TokenInv, FromTheFile
<1>9. ~overwritten' => FromTheFile(pulse)' /\ FromTheFile(code)' /\ Holds(code)'
  BY <1>3, <1>4, <1>8 DEF TokenInv, FromTheFile, Holds
<1> QED BY <1>4, <1>6, <1>7, <1>9 DEF TokenInv

\* The answer of the server is lost.
LEMMA AnswerLost ==
  ASSUME TokenInv, pulse.at = "post", NEW new \in Credentials, Renewed(pulse.cur, new),
         pulse' = Idle, overwritten' = TRUE, UNCHANGED <<file, code>>
  PROVE  TokenInv'
<1>1. /\ pulse.cur \in Credentials /\ code \in Renewals /\ file \in Credentials /\ file.refresh <= valid
  BY DEF TokenInv, TokenTypes, Renewing
<1>2. valid' = issued' /\ valid <= valid' /\ valid \in Nat /\ valid' \in 0..MaxTokens
  BY <1>1, ServerRenews
<1>3. file.refresh \in 0..MaxTokens /\ code.cur.refresh \in Int /\ code.new.refresh \in Int
  BY <1>1, TokenRecords DEF Renewals
<1>4. Idle \in Renewals /\ Idle.at = "idle"
  BY TokenRecords
<1>5. Renewing(code)'
  BY <1>2, <1>3 DEF TokenInv, Renewing
<1> QED BY <1>1, <1>2, <1>3, <1>4, <1>5 DEF TokenInv, TokenTypes, Renewing, OneReplaces

\* A writer p, the other one being o, puts its credentials into the file.
LEMMA FileWritten ==
  ASSUME TokenTypes, NEW p \in Renewals, NEW o \in Renewals, p.at = "write",
         Renewing(p), Renewing(o), file.refresh <= valid,
         p.at = "write" /\ o.at = "write" /\ p.cur.refresh = o.cur.refresh =>
           p.new.refresh = p.cur.refresh \/ o.new.refresh = o.cur.refresh,
         FromTheFile(o), file.refresh = valid \/ Holds(p) \/ Holds(o),
         file' = p.new, UNCHANGED valid, p.cur.refresh = file.refresh
  PROVE  /\ file'.refresh <= valid
         /\ o.at \in {"post", "write"} => o.cur.refresh <= file'.refresh
         /\ \/ file'.refresh = valid
            \/ o.at = "write" /\ o.new.refresh = valid /\ o.cur.refresh = file'.refresh
<1>1. /\ p.cur.refresh \in Int /\ p.new.refresh \in Int /\ o.cur.refresh \in Int
      /\ o.new.refresh \in Int /\ file.refresh \in Int /\ valid \in Int
  BY TokenRecords DEF Renewals, TokenTypes
<1> QED BY <1>1 DEF Renewing, FromTheFile, Holds

\* Pulse writes the file, or fails to.
LEMMA PulseWrites ==
  ASSUME TokenInv, WriteBack
  PROVE  TokenInv'
<1>1. /\ pulse.at = "write" /\ pulse' = Idle /\ UNCHANGED <<valid, issued, code>>
      /\ \/ file' = pulse.new /\ overwritten' = (overwritten \/ file.refresh # pulse.cur.refresh)
         \/ file' = file /\ overwritten' = TRUE
  BY DEF WriteBack, Finish
<1>2. Idle \in Renewals /\ Idle.at = "idle"
  BY TokenRecords
<1>3. CASE file' = file /\ overwritten' = TRUE
  BY <1>1, <1>2, <1>3, PulseElsewhere
<1>4. CASE file' = pulse.new /\ overwritten' = (overwritten \/ file.refresh # pulse.cur.refresh)
  <2>1. pulse.new \in Credentials /\ pulse.new.refresh <= valid
    BY <1>1 DEF TokenInv, Renewing
  <2>2. TokenTypes' /\ Renewing(pulse)' /\ Renewing(code)' /\ file'.refresh <= valid /\ OneReplaces'
    BY <1>1, <1>2, <1>4, <2>1 DEF TokenInv, TokenTypes, Renewing, OneReplaces
  <2>3. ASSUME ~overwritten'
        PROVE  /\ code.at \in {"post", "write"} => code.cur.refresh <= file'.refresh
               /\ \/ file'.refresh = valid
                  \/ code.at = "write" /\ code.new.refresh = valid /\ code.cur.refresh = file'.refresh
    BY <1>1, <1>4, <2>3, FileWritten DEF TokenInv, TokenTypes, OneReplaces
  <2> QED BY <1>1, <1>2, <2>2, <2>3 DEF TokenInv, FromTheFile, Holds
<1> QED BY <1>1, <1>3, <1>4

\* Claude Code writes the file.
LEMMA CodeWritesIt ==
  ASSUME TokenInv, CodeWrites
  PROVE  TokenInv'
<1>1. /\ code.at = "write" /\ code' = Idle /\ UNCHANGED <<valid, issued, pulse>>
      /\ file' = code.new /\ overwritten' = (overwritten \/ file.refresh # code.cur.refresh)
  BY DEF CodeWrites
<1>2. Idle \in Renewals /\ Idle.at = "idle"
  BY TokenRecords
<1>3. code.new \in Credentials /\ code.new.refresh <= valid
  BY <1>1 DEF TokenInv, Renewing
<1>4. TokenTypes' /\ Renewing(pulse)' /\ Renewing(code)' /\ file'.refresh <= valid /\ OneReplaces'
  BY <1>1, <1>2, <1>3 DEF TokenInv, TokenTypes, Renewing, OneReplaces
<1>5. ASSUME ~overwritten'
      PROVE  /\ pulse.at \in {"post", "write"} => pulse.cur.refresh <= file'.refresh
             /\ \/ file'.refresh = valid
                \/ pulse.at = "write" /\ pulse.new.refresh = valid /\ pulse.cur.refresh = file'.refresh
  BY <1>1, <1>5, FileWritten DEF TokenInv, TokenTypes, OneReplaces
<1> QED BY <1>1, <1>2, <1>4, <1>5 DEF TokenInv, FromTheFile, Holds

\* Claude Code begins a renewal, or is refused one.
LEMMA CodeElsewhere ==
  ASSUME TokenInv, NEW c \in Renewals, code' = c, code.at # "write",
         c.at = "idle" \/ (c.at = "post" /\ c.cur = file),
         UNCHANGED <<file, valid, issued, pulse, overwritten>>
  PROVE  TokenInv'
<1>1. file \in Credentials /\ file.refresh <= file.refresh
  BY TokenRecords DEF TokenInv, TokenTypes
<1> QED BY <1>1 DEF TokenInv, TokenTypes, Renewing, FromTheFile, OneReplaces, Holds

\* Another login, which the server accepts from now on.
LEMMA LoginKeeps ==
  ASSUME TokenInv, Login
  PROVE  TokenInv'
<1>1. /\ issued < MaxTokens /\ issued' = issued + 1 /\ valid' = issued + 1
      /\ file' = [refresh |-> issued + 1, life |-> "good"] /\ UNCHANGED <<pulse, code, overwritten>>
  BY DEF Login
<1>2. /\ issued \in Nat /\ valid = issued /\ pulse \in Renewals /\ code \in Renewals /\ file.refresh <= valid
      /\ file \in Credentials
  BY DEF TokenInv, TokenTypes
<1>3. file' \in Credentials /\ issued' \in 0..MaxTokens /\ file'.refresh = issued + 1
  BY <1>1, <1>2, ClaudeTokenAssumption DEF Credentials
<1>4. /\ pulse.cur.refresh \in Int /\ pulse.new.refresh \in Int /\ code.cur.refresh \in Int
      /\ code.new.refresh \in Int /\ file.refresh \in Int
  BY <1>2, TokenRecords DEF Renewals
<1>5. Renewing(pulse)' /\ Renewing(code)'
  BY <1>1, <1>2, <1>4 DEF TokenInv, Renewing
<1>6. ~overwritten' => FromTheFile(pulse)' /\ FromTheFile(code)'
  BY <1>1, <1>2, <1>3, <1>4 DEF TokenInv, FromTheFile
<1> QED BY <1>1, <1>2, <1>3, <1>5, <1>6 DEF TokenInv, TokenTypes, OneReplaces

\* The access token ages, which changes no refresh token.
LEMMA AgesKeeps ==
  ASSUME TokenInv, TokenAges
  PROVE  TokenInv'
<1>1. file.life # "over" /\ UNCHANGED <<valid, issued, pulse, code, overwritten>>
  BY DEF TokenAges
<1>2. file' \in Credentials /\ file'.refresh = file.refresh
  BY DEF TokenAges, TokenInv, TokenTypes, Credentials
<1> QED BY <1>1, <1>2 DEF TokenInv, TokenTypes, Renewing, FromTheFile, OneReplaces, Holds

\* Every step of the two programs and the server keeps the invariant.
LEMMA TokenKeeps ==
  ASSUME TokenInv, TokenNext
  PROVE  TokenInv'
<1>0. /\ Idle \in Renewals /\ Idle.at = "idle" /\ file \in Credentials /\ pulse \in Renewals
      /\ file \in Known
  BY TokenRecords DEF TokenInv, TokenTypes
<1>1. CASE FetchClaudeUsage
  <2>1. CASE pulse' = Idle
    BY <1>0, <1>1, <2>1, PulseElsewhere DEF FetchClaudeUsage
  <2>2. CASE pulse' = [Idle EXCEPT !.at = "renew", !.raw = file]
    <3>1. pulse' \in Renewals /\ pulse'.at = "renew" /\ pulse'.raw = file
      BY <1>0, <2>2 DEF Renewals
    <3> QED BY <1>0, <1>1, <3>1, PulseElsewhere DEF FetchClaudeUsage
  <2> QED BY <1>1, <2>1, <2>2 DEF FetchClaudeUsage, Finish
<1>2. CASE DoRefreshClaudeToken
  <2>1. CASE pulse' = Idle
    BY <1>0, <1>2, <2>1, PulseElsewhere DEF DoRefreshClaudeToken
  <2>2. CASE pulse' = [pulse EXCEPT !.at = "post", !.cur = file]
    BY <1>2, <2>2, PulsePosts DEF DoRefreshClaudeToken
  <2> QED BY <1>2, <2>1, <2>2 DEF DoRefreshClaudeToken, Finish
<1>3. CASE PostAnswered
  <2>1. pulse.at = "post" /\ UNCHANGED <<file, code>>
    BY <1>3 DEF PostAnswered
  <2>2. ASSUME NEW new \in Credentials, Renewed(pulse.cur, new),
               pulse' = [pulse EXCEPT !.at = "write", !.new = NextFile(new)], UNCHANGED overwritten
        PROVE  TokenInv'
    BY <2>1, <2>2, PulseRenews
  <2>3. ASSUME NEW new \in Credentials, Renewed(pulse.cur, new), pulse' = Idle, overwritten' = TRUE
        PROVE  TokenInv'
    BY <2>1, <2>3, AnswerLost
  <2>4. CASE pulse' = Idle /\ UNCHANGED <<valid, issued, overwritten>>
    BY <1>0, <2>1, <2>4, PulseElsewhere
  <2> QED BY <1>3, <2>2, <2>3, <2>4 DEF PostAnswered, Finish
<1>4. CASE Quit
  <2>1. /\ pulse' = Idle /\ UNCHANGED <<file, valid, issued, code>>
        /\ overwritten' = (overwritten \/ pulse.at = "write")
    BY <1>4 DEF Quit
  <2> QED BY <1>0, <2>1, PulseElsewhere
<1>5. CASE CodeReads
  <2>1. [Idle EXCEPT !.at = "post", !.cur = file] \in Renewals
    BY <1>0 DEF Renewals
  <2>2. /\ code.at = "idle" /\ code' = [Idle EXCEPT !.at = "post", !.cur = file]
        /\ UNCHANGED <<file, valid, issued, pulse, overwritten>>
    BY <1>5 DEF CodeReads
  <2>3. code'.at = "post" /\ code'.cur = file /\ code' \in Renewals
    BY <1>0, <2>1, <2>2 DEF Renewals
  <2> QED BY <2>2, <2>3, CodeElsewhere
<1>6. CASE CodeAnswered
  <2>1. code.at = "post" /\ UNCHANGED <<file, pulse, overwritten>>
    BY <1>6 DEF CodeAnswered
  <2>2. ASSUME NEW new \in Credentials, Renewed(code.cur, new),
               code' = [code EXCEPT !.at = "write", !.new = new]
        PROVE  TokenInv'
    BY <2>1, <2>2, CodeRenews
  <2>3. CASE code' = Idle /\ UNCHANGED <<valid, issued>>
    BY <1>0, <2>1, <2>3, CodeElsewhere
  <2> QED BY <1>6, <2>2, <2>3 DEF CodeAnswered
<1> QED BY <1>1, <1>2, <1>3, <1>4, <1>5, <1>6, PulseWrites, CodeWritesIt, LoginKeeps, AgesKeeps DEF TokenNext

\* The login survives two programs renewing it at once, however many tokens the
\* server gives out: the file ends up with the one it accepts, unless a renewal could
\* not be written or a login came in between (doRefreshClaudeToken).
THEOREM LoginIsNotLost == Spec => []LoginSurvives
<1>1. Init => TokenInv
  <2> SUFFICES ASSUME Init PROVE TokenInv
    OBVIOUS
  <2>1. TokenInit
    BY DEF Init, NoToken
  <2>2. file \in Credentials /\ file.refresh = 0
    BY <2>1, ClaudeTokenAssumption DEF TokenInit, Credentials
  <2> QED BY <2>1, <2>2, TokenRecords, ClaudeTokenAssumption
          DEF TokenInit, TokenInv, TokenTypes, Renewing, FromTheFile, OneReplaces
<1>2. TokenInv /\ [Next]_vars => TokenInv'
  <2> SUFFICES ASSUME TokenInv, [Next]_vars PROVE TokenInv'
    OBVIOUS
  <2>1. TokenNext \/ UNCHANGED tokenVars
    BY DEF Next, vars
  <2>2. CASE UNCHANGED tokenVars
    BY <2>2 DEF tokenVars, TokenInv, TokenTypes, Renewing, FromTheFile, OneReplaces, Holds
  <2> QED BY <2>1, <2>2, TokenKeeps
<1>3. TokenInv => LoginSurvives
  BY ClaudeTokenAssumption DEF TokenInv, TokenTypes, Renewing, Renewals, Holds,
     LoginSurvives, TokenTypeOK, LoginIsKept
<1> QED BY <1>1, <1>2, <1>3, SafeSpec, PTL

(***************************************************************************)
(* The collector                                                           *)
(***************************************************************************)
Readings == [age : 0..AgeCap, used : BOOLEAN, left : Int, ends : BOOLEAN]
Caches == [age : 0..CacheTtl, used : BOOLEAN, authoritative : BOOLEAN, needsAuth : BOOLEAN]
LongestWait == Max(Waits \cup {BackoffMax, AuthWait})

CollectorTypes ==
  /\ agent \in {"claude", "codex", "antigravity"} /\ server \in Servers
  /\ live \in {NoReading} \cup Readings /\ saved \in {NoReading} \cup Readings
  /\ cache \in {NoCache} \cup Caches
  /\ nextTry \in 0..LongestWait /\ backoff \in 0..BackoffMax /\ authError \in BOOLEAN

\* Only Claude's credential is refused, and that is known until it is accepted.
RefusalIsKnown == lastAnswer = "auth" => agent = "claude" /\ authError

\* An answer is no older than the reading it was made from: it has aged with it since.
CacheFits ==
  Served =>
    /\ cache.authoritative =>
         live # NoReading /\ live.age < StaleAfter + cache.age /\ lastAnswer # "auth"
    /\ cache.used /\ live # NoReading /\ live.ends => live.left > -cache.age

CollectorInv == CollectorTypes /\ RefusalIsKnown /\ CacheFits

\* The numbers, and the longest wait there is.
LEMMA CollectorNumbers ==
  /\ Interval \in Nat \ {0} /\ StaleAfter \in Nat \ {0} /\ AuthWait \in Nat \ {0}
  /\ BackoffMax \in Nat \ {0} /\ CacheTtl \in Nat \ {0}
  /\ LongestWait \in Nat
  /\ BackoffMax <= LongestWait /\ AuthWait <= LongestWait /\ \A w \in Waits : w \in 0..LongestWait
<1>1. /\ Interval \in Nat \ {0} /\ StaleAfter \in Nat \ {0} /\ AuthWait \in Nat \ {0}
      /\ BackoffMax \in Nat \ {0} /\ CacheTtl \in Nat \ {0} /\ Waits \subseteq Nat
  BY QuotaAssumption
<1> DEFINE S == Waits \cup {BackoffMax, AuthWait}
<1>2. \E x \in S : \A y \in S : x >= y
  <2>1. PICK w \in Waits \cup {0} : \A v \in Waits : v <= w
    BY WaitsAssumption
  <2>2. w \in Nat
    BY <1>1
  <2>3. CASE w >= BackoffMax /\ w >= AuthWait
    <3>1. w \in S
      BY <1>1, <2>2, <2>3
    <3> QED BY <1>1, <2>1, <2>2, <2>3, <3>1
  <2>4. CASE BackoffMax >= w /\ BackoffMax >= AuthWait
    BY <1>1, <2>1, <2>2, <2>4
  <2>5. CASE AuthWait >= w /\ AuthWait >= BackoffMax
    BY <1>1, <2>1, <2>2, <2>5
  <2> QED BY <1>1, <2>2, <2>3, <2>4, <2>5
<1>3. LongestWait \in S /\ \A y \in S : LongestWait >= y
  BY <1>2 DEF LongestWait, Max
<1> QED BY <1>1, <1>3

\* The smaller of two integers.
LEMMA MinOfTwo ==
  ASSUME NEW a \in Int, NEW b \in Int
  PROVE  Min({a, b}) = IF a <= b THEN a ELSE b
<1>1. \E x \in {a, b} : \A y \in {a, b} : x <= y
  OBVIOUS
<1>2. Min({a, b}) \in {a, b} /\ \A y \in {a, b} : Min({a, b}) <= y
  BY <1>1 DEF Min
<1> QED BY <1>2

\* The larger.
LEMMA MaxOfTwo ==
  ASSUME NEW a \in Int, NEW b \in Int
  PROVE  Max({a, b}) = IF a >= b THEN a ELSE b
<1>1. \E x \in {a, b} : \A y \in {a, b} : x >= y
  OBVIOUS
<1>2. Max({a, b}) \in {a, b} /\ \A y \in {a, b} : Max({a, b}) >= y
  BY <1>1 DEF Max
<1> QED BY <1>2

\* A penalty is never longer than the maximum.
LEMMA PenaltyFits ==
  ASSUME NEW b \in 0..BackoffMax
  PROVE  Penalty(b) \in 0..BackoffMax
<1> DEFINE n == IF b = 0 THEN Interval ELSE 2 * b
<1>1. n \in Nat /\ BackoffMax \in Nat
  BY CollectorNumbers
<1>2. Penalty(b) = Min({n, BackoffMax})
  BY DEF Penalty
<1> HIDE DEF n
<1> QED BY <1>1, <1>2, MinOfTwo

\* A step after which nothing is served.
LEMMA NothingServed ==
  ASSUME CollectorTypes', RefusalIsKnown', cache' = NoCache
  PROVE  CollectorInv'
BY DEF CollectorInv, CacheFits, Served

\* What an answer is made of is what is known.
LEMMA CollectFits ==
  ASSUME CollectorTypes, NEW c \in Collect
  PROVE  /\ c \in Caches /\ c.age = 0
         /\ c.authoritative => live # NoReading /\ live.age < StaleAfter /\ (agent = "claude" => ~authError)
         /\ c.used /\ live # NoReading /\ live.ends => live.left > 0
<1>0. 0 \in 0..CacheTtl
  BY CollectorNumbers
<1>1. \A f \in FromLogs : f \in Caches /\ f.age = 0 /\ f.authoritative = FALSE
  BY <1>0 DEF FromLogs, Caches
<1>2. ASSUME live # NoReading
      PROVE  /\ FromLive \in Caches /\ FromLive.age = 0
             /\ FromLive.authoritative = (live.age < StaleAfter)
             /\ FromLive.used => (live.ends => live.left > 0)
  <2>1. live.used \in BOOLEAN /\ live.ends \in BOOLEAN /\ live.left \in Int
    BY <1>2 DEF CollectorTypes, Readings
  <2>2. Expired(live) \in BOOLEAN /\ (live.age < StaleAfter) \in BOOLEAN
    BY <2>1 DEF Expired
  <2>3. /\ FromLive.age = 0 /\ FromLive.used = (live.used /\ ~Expired(live))
        /\ FromLive.authoritative = (live.age < StaleAfter)
    BY DEF FromLive
  <2>4. FromLive \in Caches
    BY <1>0, <2>1, <2>2 DEF FromLive, Caches
  <2>5. FromLive.used => (live.ends => live.left > 0)
    <3> SUFFICES ASSUME FromLive.used, live.ends PROVE live.left > 0
      OBVIOUS
    <3>1. ~Expired(live)
      BY <2>3, Zenon
    <3>2. ~(live.left <= 0)
      BY <3>1 DEF Expired
    <3> QED BY <2>1, <3>2
  <2> QED BY <2>3, <2>4, <2>5
<1>3. c \in (IF live # NoReading THEN {FromLive} ELSE FromLogs) =>
        /\ c \in Caches /\ c.age = 0
        /\ c.authoritative => live # NoReading /\ live.age < StaleAfter
        /\ c.used /\ live # NoReading /\ live.ends => live.left > 0
  BY <1>1, <1>2
<1>4. CASE agent # "claude"
  BY <1>3, <1>4 DEF CollectorTypes, Collect, CollectCodexQuota, CollectAntigravityQuota,
     FindLatestCodexRateLimits
<1>5. CASE agent = "claude"
  <2>1. PICK q \in IF live # NoReading THEN {FromLive} ELSE FromLogs :
          c = IF authError THEN [q EXCEPT !.needsAuth = TRUE, !.authoritative = FALSE] ELSE q
    BY <1>5 DEF Collect, CollectClaudeQuota
  <2>2. /\ q \in Caches /\ q.age = 0
        /\ q.authoritative => live # NoReading /\ live.age < StaleAfter
        /\ q.used /\ live # NoReading /\ live.ends => live.left > 0
    BY <1>1, <1>2, <2>1
  <2> QED BY <2>1, <2>2 DEF Caches
<1> QED BY <1>4, <1>5

\* /status is answered: from the cache, or from what is known now.
LEMMA GetQuotasKeeps ==
  ASSUME CollectorInv, GetQuotas
  PROVE  CollectorInv'
<1>1. UNCHANGED <<agent, live, saved, nextTry, backoff, authError, server, lastAnswer>>
  BY DEF GetQuotas
<1>2. CASE UNCHANGED cache
  BY <1>1, <1>2 DEF CollectorInv, CollectorTypes, Servers, RefusalIsKnown, CacheFits, Served
<1>3. CASE cache' \in Collect
  <2>1. /\ cache' \in Caches /\ cache'.age = 0
        /\ cache'.authoritative => live # NoReading /\ live.age < StaleAfter /\ (agent = "claude" => ~authError)
        /\ cache'.used /\ live # NoReading /\ live.ends => live.left > 0
    BY <1>3, CollectFits DEF CollectorInv
  <2>2. CollectorTypes' /\ RefusalIsKnown'
    BY <1>1, <2>1 DEF CollectorInv, CollectorTypes, Servers, RefusalIsKnown
  <2>3. live.age < StaleAfter => live.age < StaleAfter + 0
    BY CollectorNumbers
  <2>4. CacheFits'
    BY <1>1, <2>1, <2>3 DEF CollectorInv, RefusalIsKnown, CacheFits
  <2> QED BY <2>2, <2>4 DEF CollectorInv
<1> QED BY <1>2, <1>3 DEF GetQuotas

\* A fetch ends.
LEMMA AnswerKeeps ==
  ASSUME CollectorInv, NEW r \in Servers, Answer(r)
  PROVE  CollectorInv'
<1>1. /\ r \in {server, "down"} /\ lastAnswer' = r /\ UNCHANGED <<agent, server>> /\ Servers' = Servers
      /\ 0 \in 0..BackoffMax
  BY CollectorNumbers DEF Answer, Servers
<1>2. CASE r = "ok" /\ Succeed
  <2>1. PICK reading \in [age : {0}, used : BOOLEAN, left : WindowEnds, ends : BOOLEAN] :
          /\ live' = reading /\ saved' \in {reading, saved}
          /\ authError' = FALSE /\ cache' = NoCache /\ backoff' = 0 /\ UNCHANGED nextTry
    BY <1>2 DEF Succeed, SaveClaudeState
  <2>2. 0 \in 0..AgeCap /\ WindowEnds \subseteq Int
    BY CollectorNumbers, QuotaAssumption DEF AgeCap
  <2>3. reading \in Readings
    BY <2>2 DEF Readings
  <2> QED BY <1>1, <1>2, <2>1, <2>3, NothingServed DEF CollectorInv, CollectorTypes, RefusalIsKnown
<1>3. CASE r = "auth" /\ AuthRefused
  <2>1. agent = "claude"
    BY <1>3 DEF CollectorInv, CollectorTypes, Servers, FetchCodexUsageResults, FetchAntigravityUsageResults
  <2>2. /\ authError' = TRUE /\ backoff' = 0 /\ nextTry' = AuthWait /\ cache' = NoCache
        /\ UNCHANGED <<live, saved>>
    BY <1>3 DEF AuthRefused, AuthCache
  <2>3. AuthWait \in 0..LongestWait
    BY CollectorNumbers
  <2> QED BY <1>1, <2>1, <2>2, <2>3, NothingServed DEF CollectorInv, CollectorTypes, RefusalIsKnown
<1>4. CASE r = "limited" /\ Limited
  <2>1. /\ nextTry' \in 0..LongestWait /\ backoff' = 0 /\ cache' = NoCache
        /\ UNCHANGED <<live, saved, authError>>
    BY <1>4, CollectorNumbers DEF Limited
  <2> QED BY <1>1, <1>4, <2>1, NothingServed DEF CollectorInv, CollectorTypes, RefusalIsKnown
<1>5. CASE r \in {"limited", "down"} /\ Fail
  <2>1. /\ backoff' = Penalty(backoff) /\ nextTry' = Penalty(backoff)
        /\ UNCHANGED <<live, saved, authError, cache>>
    BY <1>5 DEF Fail
  <2>2. Penalty(backoff) \in 0..BackoffMax /\ Penalty(backoff) \in 0..LongestWait
    BY PenaltyFits, CollectorNumbers DEF CollectorInv, CollectorTypes
  <2>3. CollectorTypes' /\ RefusalIsKnown'
    BY <1>1, <1>5, <2>1, <2>2 DEF CollectorInv, CollectorTypes, RefusalIsKnown
  <2>4. CacheFits'
    BY <1>1, <1>5, <2>1 DEF CollectorInv, CacheFits, Served
  <2> QED BY <2>3, <2>4 DEF CollectorInv
<1> QED BY <1>2, <1>3, <1>4, <1>5 DEF Answer

\* A tick older, a reading is at most a tick older and its window a tick shorter.
LEMMA OlderFits ==
  ASSUME NEW r \in {NoReading} \cup Readings
  PROVE  /\ Older(r) \in {NoReading} \cup Readings
         /\ Older(r) # NoReading => r # NoReading /\ Older(r).age <= r.age + 1 /\ Older(r).ends = r.ends
         /\ r # NoReading => Older(r) # NoReading
         /\ r # NoReading /\ r.ends => Older(r).left >= r.left - 1
<1>0. StaleAfter \in Nat /\ CacheTtl \in Nat /\ AgeCap \in Nat /\ -1 \notin 0..AgeCap
  BY CollectorNumbers DEF AgeCap
<1>1. CASE r = NoReading
  BY <1>1 DEF Older
<1>2. CASE r # NoReading
  <2>1. r \in Readings /\ r.age \in 0..AgeCap /\ r.left \in Int /\ r.ends \in BOOLEAN /\ r.used \in BOOLEAN
    BY <1>2 DEF Readings
  <2> DEFINE a == Min({AgeCap, r.age + 1})
             l == IF r.ends THEN Max({-CacheTtl - 1, r.left - 1}) ELSE 0
  <2>2. a \in 0..AgeCap /\ a <= r.age + 1
    BY <1>0, <2>1, MinOfTwo
  <2>3. l \in Int /\ (r.ends => l >= r.left - 1)
    <3>1. -CacheTtl - 1 \in Int /\ r.left - 1 \in Int
      BY <1>0, <2>1
    <3>2. Max({-CacheTtl - 1, r.left - 1}) =
            IF -CacheTtl - 1 >= r.left - 1 THEN -CacheTtl - 1 ELSE r.left - 1
      BY <3>1, MaxOfTwo
    <3> QED BY <3>1, <3>2
  <2> HIDE DEF a, l
  <2>4. Older(r) = [r EXCEPT !.age = a, !.left = l]
    BY <1>2 DEF Older, a, l
  <2>5. /\ Older(r) \in Readings /\ Older(r).age = a /\ Older(r).left = l /\ Older(r).ends = r.ends
    BY <2>1, <2>2, <2>3, <2>4 DEF Readings
  <2>6. Older(r) # NoReading
    <3>1. NoReading.age = -1
      BY DEF NoReading
    <3> QED BY <1>0, <2>2, <2>5, <3>1
  <2> QED BY <1>2, <2>2, <2>3, <2>5, <2>6
<1> QED BY <1>1, <1>2

\* A tick passes.
LEMMA TickKeeps ==
  ASSUME CollectorInv, Tick
  PROVE  CollectorInv'
<1>1. /\ live' = Older(live) /\ saved' = Older(saved) /\ nextTry' = Max({0, nextTry - 1})
      /\ cache' = IF cache = NoCache THEN cache ELSE [cache EXCEPT !.age = Min({CacheTtl, @ + 1})]
      /\ UNCHANGED <<agent, backoff, authError, server, lastAnswer>>
  BY DEF Tick
<1>2. /\ live' \in {NoReading} \cup Readings /\ saved' \in {NoReading} \cup Readings
      /\ live # NoReading => live' # NoReading
      /\ live' # NoReading => live # NoReading /\ live'.age <= live.age + 1 /\ live'.ends = live.ends
      /\ live # NoReading /\ live.ends => live'.left >= live.left - 1
  BY <1>1, OlderFits DEF CollectorInv, CollectorTypes
<1>3. nextTry' \in 0..LongestWait
  <2>1. nextTry \in 0..LongestWait /\ LongestWait \in Nat
    BY CollectorNumbers DEF CollectorInv, CollectorTypes
  <2>2. Max({0, nextTry - 1}) = IF 0 >= nextTry - 1 THEN 0 ELSE nextTry - 1
    BY <2>1, MaxOfTwo
  <2> QED BY <1>1, <2>1, <2>2
<1>4. cache # NoCache => cache \in Caches /\ cache.age \in 0..CacheTtl
  BY DEF CollectorInv, CollectorTypes, Caches
<1>5. cache # NoCache =>
        /\ cache' \in Caches /\ cache'.used = cache.used /\ cache'.authoritative = cache.authoritative
        /\ cache'.age = IF cache.age + 1 >= CacheTtl THEN CacheTtl ELSE cache.age + 1
  <2> SUFFICES ASSUME cache # NoCache
               PROVE  /\ cache' \in Caches /\ cache'.used = cache.used /\ cache'.authoritative = cache.authoritative
                      /\ cache'.age = IF cache.age + 1 >= CacheTtl THEN CacheTtl ELSE cache.age + 1
    OBVIOUS
  <2> DEFINE n == Min({CacheTtl, cache.age + 1})
  <2>1. n = (IF cache.age + 1 >= CacheTtl THEN CacheTtl ELSE cache.age + 1) /\ n \in 0..CacheTtl
    BY <1>4, CollectorNumbers, MinOfTwo
  <2> HIDE DEF n
  <2>2. cache' = [cache EXCEPT !.age = n]
    BY <1>1 DEF n
  <2> QED BY <1>4, <2>1, <2>2 DEF Caches
<1>6. CollectorTypes' /\ RefusalIsKnown'
  BY <1>1, <1>2, <1>3, <1>5 DEF CollectorInv, CollectorTypes, Servers, RefusalIsKnown
<1>7. CacheFits'
  <2> SUFFICES ASSUME Served'
               PROVE  /\ cache'.authoritative =>
                           live' # NoReading /\ live'.age < StaleAfter + cache'.age /\ lastAnswer' # "auth"
                      /\ cache'.used /\ live' # NoReading /\ live'.ends => live'.left > -cache'.age
    BY DEF CacheFits
  <2>1. cache # NoCache /\ cache.age < CacheTtl /\ cache'.age = cache.age + 1
    BY <1>1, <1>4, <1>5, CollectorNumbers DEF Served
  <2>2. /\ cache.authoritative =>
             live # NoReading /\ live.age < StaleAfter + cache.age /\ lastAnswer # "auth"
        /\ cache.used /\ live # NoReading /\ live.ends => live.left > -cache.age
    BY <2>1 DEF CollectorInv, CacheFits, Served
  <2>3. /\ live # NoReading => live.age \in Int /\ live.left \in Int
        /\ live' # NoReading => live'.age \in Int /\ live'.left \in Int
    BY <1>2 DEF CollectorInv, CollectorTypes, Readings
  <2>4. cache'.authoritative =>
          live' # NoReading /\ live'.age < StaleAfter + cache'.age /\ lastAnswer' # "auth"
    BY <1>1, <1>2, <1>4, <1>5, <2>1, <2>2, <2>3, CollectorNumbers
  <2>5. cache'.used /\ live' # NoReading /\ live'.ends => live'.left > -cache'.age
    <3> SUFFICES ASSUME cache'.used, live' # NoReading, live'.ends PROVE live'.left > -cache'.age
      OBVIOUS
    <3>1. cache.used /\ live # NoReading /\ live.ends
      BY <1>2, <1>5, <2>1, Zenon
    <3>2. live.left > -cache.age /\ live'.left >= live.left - 1
      BY <1>2, <2>2, <3>1
    <3> QED BY <1>4, <2>1, <2>3, <3>1, <3>2
  <2> QED BY <2>4, <2>5
<1> QED BY <1>6, <1>7 DEF CollectorInv

\* Every step of the collector keeps the invariant.
LEMMA CollectorKeeps ==
  ASSUME CollectorInv, QuotaNext
  PROVE  CollectorInv'
<1>1. CASE CacheCleared
  BY <1>1, NothingServed DEF CacheCleared, CollectorInv, CollectorTypes, Servers, RefusalIsKnown
<1>2. CASE Restart
  <2>1. 0 \in 0..LongestWait /\ 0 \in 0..BackoffMax
    BY CollectorNumbers
  <2> QED BY <1>2, <2>1, NothingServed
          DEF Restart, LoadClaudeState, CollectorInv, CollectorTypes, Servers, RefusalIsKnown
<1>3. CASE ServerChanges
  BY <1>3 DEF ServerChanges, CollectorInv, CollectorTypes, Servers, RefusalIsKnown, CacheFits, Served
<1> QED BY <1>1, <1>2, <1>3, GetQuotasKeeps, TickKeeps, AnswerKeeps DEF QuotaNext

\* What is served as the server's own reading is one of not long ago, whose credential
\* was not refused since, and of a window that is not over, for all intervals, waits
\* and windows (getQuotas, refreshLive).
THEOREM QuotaIsTrue == Spec => []QuotaIsCurrent
<1>1. Init => CollectorInv
  <2> SUFFICES ASSUME Init PROVE CollectorInv
    OBVIOUS
  <2>1. QuotaInit
    BY DEF Init, NoCollector
  <2>2. 0 \in 0..LongestWait /\ 0 \in 0..BackoffMax /\ {0, StaleAfter} \subseteq 0..AgeCap
        /\ WindowEnds \subseteq Int
    BY CollectorNumbers, QuotaAssumption DEF AgeCap
  <2>3. saved \in {NoReading} \cup Readings
    BY <2>1, <2>2 DEF QuotaInit, Readings
  <2>4. CollectorTypes /\ RefusalIsKnown
    BY <2>1, <2>2, <2>3 DEF QuotaInit, CollectorTypes, RefusalIsKnown
  <2> QED BY <2>1, <2>4 DEF QuotaInit, CollectorInv, CacheFits, Served
<1>2. CollectorInv /\ [Next]_vars => CollectorInv'
  <2> SUFFICES ASSUME CollectorInv, [Next]_vars PROVE CollectorInv'
    OBVIOUS
  <2>1. QuotaNext \/ UNCHANGED quotaVars
    BY DEF Next, vars
  <2>2. CASE UNCHANGED quotaVars
    BY <2>2 DEF quotaVars, CollectorInv, CollectorTypes, Servers, RefusalIsKnown, CacheFits, Served
  <2> QED BY <2>1, <2>2, CollectorKeeps
<1>3. CollectorInv => QuotaIsCurrent
  <2> SUFFICES ASSUME CollectorInv PROVE QuotaIsCurrent
    OBVIOUS
  <2>1. QuotaTypeOK
    BY DEF CollectorInv, CollectorTypes, QuotaTypeOK, Readings, LongestWait
  <2>2. /\ live # NoReading => live.age \in Int /\ live.left \in Int
        /\ cache # NoCache => cache.age \in 0..CacheTtl
    BY DEF CollectorInv, CollectorTypes, Readings, Caches
  <2>3. AuthoritativeIsFresh
    BY <2>2, CollectorNumbers DEF CollectorInv, CacheFits, Served, AuthoritativeIsFresh
  <2>4. OldWindowIsForgotten
    BY <2>2, CollectorNumbers DEF CollectorInv, CacheFits, Served, OldWindowIsForgotten
  <2> QED BY <2>1, <2>3, <2>4 DEF QuotaIsCurrent
<1> QED BY <1>1, <1>2, <1>3, SafeSpec, PTL

(***************************************************************************)
(* The logs: induction over a finite set, and what a fold over one gives   *)
(***************************************************************************)
\* Every set of numbers that is not empty has a least one: what induction rests
\* on here, over the messages and the files that are counted.
LEMMA LeastOf ==
  ASSUME NEW T, T \subseteq Nat, T # {}
  PROVE  \E m \in T : \A n \in T : m <= n
<1> DEFINE R == {ss \in Nat \X Nat : ss[1] < ss[2]}
<1>1. IsWellFoundedOn(R, Nat)
  BY NatLessThanWellFounded DEF OpToRel
<1>2. \A m, n \in Nat : n < m => <<n, m>> \in R
  OBVIOUS
<1> HIDE DEF R
<1>3. PICK m \in T : \A n \in T : ~(<<n, m>> \in R)
  BY <1>1, WFMin, Zenon
<1>4. \A n \in T : ~(n < m)
  BY <1>2, <1>3
<1>5. \A n \in T : m <= n
  BY <1>4
<1> QED
  BY <1>5

\* A set that holds the empty subset of S, and a subset whenever it holds that
\* without one of its elements, holds all subsets of S.
LEMMA SubsetInduction ==
  ASSUME NEW S, IsFiniteSet(S), NEW P, {} \in P,
         \A T \in SUBSET S : T # {} /\ (\A x \in T : T \ {x} \in P) => T \in P
  PROVE  \A T \in SUBSET S : T \in P
<1> DEFINE Bad == (SUBSET S) \ P
           Sizes == {Cardinality(T) : T \in Bad}
<1>1. SUFFICES ASSUME Bad # {}
               PROVE  FALSE
  OBVIOUS
<1>2. \A T \in SUBSET S : IsFiniteSet(T) /\ Cardinality(T) \in Nat
  BY FS_Subset, FS_CardinalityType
<1>3. PICK n \in Sizes : \A k \in Sizes : n <= k
  <2>1. Sizes \subseteq Nat /\ Sizes # {}
    BY <1>1, <1>2
  <2> HIDE DEF Sizes
  <2> QED
    BY <2>1, LeastOf
<1>4. PICK T \in Bad : n = Cardinality(T)
  OBVIOUS
<1>5. ASSUME NEW x \in T
      PROVE  T \ {x} \in P
  <2>1. T \in SUBSET S /\ T \ {x} \in SUBSET S
    OBVIOUS
  <2>2. Cardinality(T \ {x}) = n - 1 /\ n \in Nat
    BY <1>2, <1>4, <2>1, FS_RemoveElement
  <2>3. Cardinality(T \ {x}) \notin Sizes
    <3> HIDE DEF Sizes
    <3> QED
      BY <1>3, <2>2
  <2> QED
    BY <2>1, <2>3
<1> QED
  BY <1>4, <1>5

\* g is the fold over each subset of S: of the element c chooses, and of the fold
\* over the others.
Folds(g, S, base, c, op) ==
  g = [s \in SUBSET S |-> IF s = {} THEN base ELSE op[<<c[s], g[s \ {c[s]}]>>]]

\* A fold over a finite set exists.
LEMMA FoldExists ==
  ASSUME NEW S, IsFiniteSet(S), NEW V, NEW base \in V, NEW op \in [S \X V -> V],
         NEW c, \A s \in SUBSET S : s # {} => c[s] \in s
  PROVE  \E g \in [SUBSET S -> V] : Folds(g, S, base, c, op)
<1> DEFINE Step(g) == [s \in SUBSET S |-> IF s = {} THEN base ELSE op[<<c[s], g[s \ {c[s]}]>>]]
           UpTo(g, k) == \A s \in SUBSET S : Cardinality(s) <= k => g[s] = Step(g)[s]
           Bad == {k \in Nat : ~\E g \in [SUBSET S -> V] : UpTo(g, k)}
<1>0. \A s \in SUBSET S : IsFiniteSet(s) /\ Cardinality(s) \in Nat
                            /\ Cardinality(s) <= Cardinality(S)
  BY FS_Subset, FS_CardinalityType
<1>1. Bad = {}
  <2> SUFFICES ASSUME Bad # {} PROVE FALSE
    OBVIOUS
  <2>1. PICK k \in Bad : \A i \in Bad : k <= i
    <3>1. Bad \subseteq Nat
      OBVIOUS
    <3> HIDE DEF Bad
    <3> QED
      BY <3>1, LeastOf
  <2>2. k \in Nat /\ ~\E g \in [SUBSET S -> V] : UpTo(g, k)
    OBVIOUS
  <2>3. PICK g \in [SUBSET S -> V] : k = 0 \/ UpTo(g, k - 1)
    <3>1. CASE k = 0
      <4>1. [s \in SUBSET S |-> base] \in [SUBSET S -> V]
        OBVIOUS
      <4> QED
        BY <3>1, <4>1
    <3>2. CASE k # 0
      <4>1. k - 1 \in Nat /\ ~(k <= k - 1)
        BY <2>2, <3>2
      <4>2. k - 1 \notin Bad
        <5> HIDE DEF Bad
        <5> QED
          BY <2>1, <4>1
      <4> QED
        BY <4>1, <4>2
    <3> QED
      BY <3>1, <3>2
  <2> DEFINE h == Step(g)
  <2>4. ASSUME NEW s \in SUBSET S, s # {}
        PROVE  c[s] \in s /\ s \ {c[s]} \in SUBSET S /\ Cardinality(s \ {c[s]}) = Cardinality(s) - 1
    BY <1>0, <2>4, FS_RemoveElement
  <2>5. h \in [SUBSET S -> V]
    <3>1. ASSUME NEW s \in SUBSET S, s # {}
          PROVE  op[<<c[s], g[s \ {c[s]}]>>] \in V
      BY <2>4, <3>1
    <3> QED
      BY <3>1
  <2>6. ASSUME NEW s \in SUBSET S, Cardinality(s) <= k, s # {}
        PROVE  h[s \ {c[s]}] = g[s \ {c[s]}]
    <3> DEFINE t == s \ {c[s]}
    <3>1. t \in SUBSET S /\ Cardinality(t) = Cardinality(s) - 1 /\ Cardinality(s) \in Nat
          /\ Cardinality(t) \in Nat
      BY <1>0, <2>4, <2>6
    <3> HIDE DEF t, h, UpTo
    <3>2. Cardinality(t) <= k - 1 /\ k # 0
      BY <2>2, <2>6, <3>1
    <3>3. g[t] = h[t]
      BY <2>3, <3>1, <3>2 DEF UpTo, h
    <3> QED
      BY <3>3 DEF t
  <2>7. UpTo(h, k)
    <3> SUFFICES ASSUME NEW s \in SUBSET S, Cardinality(s) <= k
                 PROVE  h[s] = Step(h)[s]
      BY Zenon
    <3>1. CASE s = {}
      BY <3>1
    <3>2. CASE s # {}
      <4>1. h[s \ {c[s]}] = g[s \ {c[s]}]
        BY <2>6, <3>2
      <4>2. h[s] = op[<<c[s], g[s \ {c[s]}]>>]
        BY <3>2
      <4> HIDE DEF h
      <4> QED
        BY <3>2, <4>1, <4>2
    <3> QED
      BY <3>1, <3>2
  <2> HIDE DEF h, UpTo
  <2> QED
    BY <2>2, <2>5, <2>7
<1>2. Cardinality(S) \in Nat
  BY FS_CardinalityType
<1>3. PICK g \in [SUBSET S -> V] : UpTo(g, Cardinality(S))
  BY <1>1, <1>2
<1>4. \A s \in SUBSET S : g[s] = Step(g)[s]
  BY <1>0, <1>3
<1>5. g = [s \in SUBSET S |-> g[s]] /\ Step(g) = [s \in SUBSET S |-> Step(g)[s]]
  OBVIOUS
<1> HIDE DEF Step
<1>6. g = Step(g)
  BY <1>4, <1>5
<1> QED
  BY <1>6 DEF Folds, Step

\* There is only one.
LEMMA FoldIsOne ==
  ASSUME NEW S, IsFiniteSet(S), NEW base, NEW op,
         NEW c, \A s \in SUBSET S : s # {} => c[s] \in s,
         NEW g, NEW h, Folds(g, S, base, c, op), Folds(h, S, base, c, op)
  PROVE  g[S] = h[S]
<1> DEFINE P == {s \in SUBSET S : g[s] = h[s]}
<1>0. \A s \in SUBSET S : /\ g[s] = IF s = {} THEN base ELSE op[<<c[s], g[s \ {c[s]}]>>]
                          /\ h[s] = IF s = {} THEN base ELSE op[<<c[s], h[s \ {c[s]}]>>]
  BY DEF Folds
<1>1. {} \in P
  BY <1>0
<1>2. \A T \in SUBSET S : T # {} /\ (\A x \in T : T \ {x} \in P) => T \in P
  BY <1>0
<1> HIDE DEF P
<1>3. \A T \in SUBSET S : T \in P
  BY <1>1, <1>2, SubsetInduction
<1> QED
  BY <1>3 DEF P

(***************************************************************************)
(* The sum of what messages used                                           *)
(***************************************************************************)
\* G is the sum over each set of the messages of f, whichever is taken first.
Sums(G, f, D) ==
  /\ G \in [SUBSET D -> Nat] /\ G[{}] = 0
  /\ \A s \in SUBSET D : \A x \in s : G[s] = G[s \ {x}] + f[x].io
  /\ \A s \in SUBSET D : Io([m \in s |-> f[m]]) = G[s]

FirstOf(D) == [s \in SUBSET D |-> CHOOSE x \in s : TRUE]
AddIo(f, D) == [p \in D \X Nat |-> p[2] + f[p[1]].io]

\* What is counted of a set of messages is the fold over it.
LEMMA IoIsAFold ==
  ASSUME NEW s, IsFiniteSet(s), NEW f, \A m \in s : f[m].io \in Nat
  PROVE  \E h : Folds(h, s, 0, FirstOf(s), AddIo(f, s)) /\ Io([m \in s |-> f[m]]) = h[s]
<1> DEFINE w == [m \in s |-> f[m]]
           F == CHOOSE g : g = [t \in SUBSET s |->
                  IF t = {} THEN 0
                  ELSE g[t \ {CHOOSE x \in t : TRUE}] + w[CHOOSE x \in t : TRUE].io]
<1>1. DOMAIN w = s
  OBVIOUS
<1>2. Io(w) = F[s]
  <2> HIDE DEF w
  <2>1. Io(w) = MapThenFoldSet(LAMBDA l, n : n + l.io, 0, LAMBDA i : w[i], LAMBDA t : CHOOSE x \in t : TRUE, DOMAIN w)
    BY DEF Io, FoldFunction, FoldFunctionOnSet
  <2>2. MapThenFoldSet(LAMBDA l, n : n + l.io, 0, LAMBDA i : w[i], LAMBDA t : CHOOSE x \in t : TRUE, s) = F[s]
    BY DEF MapThenFoldSet
  <2> QED
    BY <1>1, <2>1, <2>2
<1>3. AddIo(f, s) \in [s \X Nat -> Nat]
  BY DEF AddIo
<1>4. \A t \in SUBSET s : t # {} => FirstOf(s)[t] \in t
  BY DEF FirstOf
<1>5. PICK g \in [SUBSET s -> Nat] : Folds(g, s, 0, FirstOf(s), AddIo(f, s))
  BY <1>3, <1>4, FoldExists
<1>6. ASSUME NEW h, NEW t \in SUBSET s, t # {}, h[t \ {FirstOf(s)[t]}] \in Nat
      PROVE  AddIo(f, s)[<<FirstOf(s)[t], h[t \ {FirstOf(s)[t]}]>>]
               = h[t \ {CHOOSE x \in t : TRUE}] + w[CHOOSE x \in t : TRUE].io
  <2>1. FirstOf(s)[t] = (CHOOSE x \in t : TRUE) /\ FirstOf(s)[t] \in s
    BY <1>4, <1>6 DEF FirstOf
  <2>2. w[FirstOf(s)[t]] = f[FirstOf(s)[t]]
    BY <2>1
  <2> HIDE DEF w
  <2> QED
    BY <1>6, <2>1, <2>2 DEF AddIo
<1>7. \A t \in SUBSET s : t # {} => g[t \ {FirstOf(s)[t]}] \in Nat
  OBVIOUS
<1> HIDE DEF w
<1>8. g = [t \in SUBSET s |->
             IF t = {} THEN 0
             ELSE g[t \ {CHOOSE x \in t : TRUE}] + w[CHOOSE x \in t : TRUE].io]
  BY <1>5, <1>6, <1>7 DEF Folds
<1>9. F = [t \in SUBSET s |->
             IF t = {} THEN 0
             ELSE F[t \ {CHOOSE x \in t : TRUE}] + w[CHOOSE x \in t : TRUE].io]
  BY <1>8
<1> HIDE DEF F
<1>10. g[s] = F[s]
  <2> DEFINE P == {t \in SUBSET s : g[t] = F[t]}
  <2>0. \A t \in SUBSET s :
          /\ t = {} => g[t] = 0 /\ F[t] = 0
          /\ t # {} => LET x == CHOOSE x \in t : TRUE IN
                       /\ x \in t
                       /\ g[t] = g[t \ {x}] + w[x].io
                       /\ F[t] = F[t \ {x}] + w[x].io
    BY <1>8, <1>9
  <2>1. {} \in P
    BY <2>0
  <2>2. \A T \in SUBSET s : T # {} /\ (\A x \in T : T \ {x} \in P) => T \in P
    BY <2>0
  <2> HIDE DEF P
  <2>3. \A T \in SUBSET s : T \in P
    BY <2>1, <2>2, SubsetInduction
  <2> QED
    BY <2>3 DEF P
<1> QED
  BY <1>2, <1>5, <1>10 DEF w

\* The sums exist.
LEMMA SumsExist ==
  ASSUME NEW D, IsFiniteSet(D), NEW f, \A m \in D : f[m].io \in Nat
  PROVE  \E G : Sums(G, f, D)
<1> DEFINE c == FirstOf(D)
           op == AddIo(f, D)
<1>1. op \in [D \X Nat -> Nat]
  BY DEF AddIo
<1>2. \A t \in SUBSET D : t # {} => c[t] \in t
  BY DEF FirstOf
<1> HIDE DEF c, op
<1>3. PICK G \in [SUBSET D -> Nat] : Folds(G, D, 0, c, op)
  BY <1>1, <1>2, FoldExists
<1>4. \A s \in SUBSET D : s # {} =>
        /\ c[s] \in D /\ c[s] \in s
        /\ s \ {c[s]} \in SUBSET D
        /\ G[s \ {c[s]}] \in Nat
  BY <1>2
<1>5. ASSUME NEW s \in SUBSET D, s # {}
      PROVE  G[s] = G[s \ {c[s]}] + f[c[s]].io
  <2>1. G[s] = op[<<c[s], G[s \ {c[s]}]>>]
    BY <1>3, <1>5 DEF Folds
  <2>2. <<c[s], G[s \ {c[s]}]>> \in D \X Nat
    BY <1>4, <1>5
  <2> QED
    BY <2>1, <2>2 DEF op, AddIo
<1>6. G[{}] = 0
  BY <1>3 DEF Folds
<1>7. \A s \in SUBSET D : \A x \in s : G[s] = G[s \ {x}] + f[x].io
  <2> DEFINE P == {s \in SUBSET D : \A x \in s : G[s] = G[s \ {x}] + f[x].io}
  <2>1. {} \in P
    OBVIOUS
  <2>2. ASSUME NEW s \in SUBSET D, s # {}, \A x \in s : s \ {x} \in P,
               NEW x \in s
        PROVE  G[s] = G[s \ {x}] + f[x].io
    <3>1. PICK y \in s : y = c[s] /\ G[s] = G[s \ {y}] + f[y].io
      BY <1>4, <1>5, <2>2
    <3>2. CASE x = y
      BY <3>1, <3>2
    <3>3. CASE x # y
      <4>1. G[s \ {y}] = G[(s \ {y}) \ {x}] + f[x].io
        BY <2>2, <3>3
      <4>2. G[s \ {x}] = G[(s \ {x}) \ {y}] + f[y].io
        BY <2>2, <3>3
      <4>3. (s \ {y}) \ {x} = (s \ {x}) \ {y} /\ (s \ {x}) \ {y} \in SUBSET D
        OBVIOUS
      <4>4. G[(s \ {x}) \ {y}] \in Nat /\ f[x].io \in Nat /\ f[y].io \in Nat
        BY <4>3
      <4>5. G[s \ {y}] = G[(s \ {x}) \ {y}] + f[x].io
        BY <4>1, <4>3
      <4>6. PICK a \in Nat : a = G[(s \ {x}) \ {y}]
        BY <4>4
      <4>7. PICK u \in Nat : u = f[x].io
        BY <4>4
      <4>8. PICK v \in Nat : v = f[y].io
        BY <4>4
      <4>9. G[s] = (a + u) + v /\ G[s \ {x}] = a + v
        BY <3>1, <4>2, <4>5, <4>6, <4>7, <4>8
      <4>10. (a + u) + v = (a + v) + u
        OBVIOUS
      <4> QED
        BY <4>7, <4>9, <4>10
    <3> QED
      BY <3>2, <3>3
  <2>3. \A s \in SUBSET D : s # {} /\ (\A x \in s : s \ {x} \in P) => s \in P
    BY <2>2
  <2> HIDE DEF P
  <2>4. \A s \in SUBSET D : s \in P
    BY <2>1, <2>3, SubsetInduction
  <2> QED
    BY <2>4 DEF P
<1>8. ASSUME NEW s \in SUBSET D
      PROVE  Io([m \in s |-> f[m]]) = G[s]
  <2>1. IsFiniteSet(s) /\ \A m \in s : f[m].io \in Nat
    BY FS_Subset
  <2>2. PICK h : Folds(h, s, 0, FirstOf(s), AddIo(f, s)) /\ Io([m \in s |-> f[m]]) = h[s]
    BY <2>1, IoIsAFold
  <2> DEFINE P == {t \in SUBSET s : h[t] \in Nat /\ h[t] = G[t]}
  <2>3. \A t \in SUBSET s : t # {} => FirstOf(s)[t] \in t /\ t \in SUBSET D
    BY DEF FirstOf
  <2>4. {} \in P
    BY <1>6, <2>2 DEF Folds
  <2>5. ASSUME NEW t \in SUBSET s, t # {}, \A x \in t : t \ {x} \in P
        PROVE  t \in P
    <3>1. PICK x \in t : x = FirstOf(s)[t] /\ h[t] = AddIo(f, s)[<<x, h[t \ {x}]>>]
      BY <2>2, <2>3, <2>5 DEF Folds
    <3>2. h[t \ {x}] \in Nat /\ h[t \ {x}] = G[t \ {x}] /\ x \in s
      BY <2>5
    <3>3. h[t] = h[t \ {x}] + f[x].io
      BY <3>1, <3>2 DEF AddIo
    <3>4. G[t] = G[t \ {x}] + f[x].io /\ f[x].io \in Nat
      BY <1>7, <2>1
    <3> QED
      BY <3>2, <3>3, <3>4
  <2> HIDE DEF P
  <2>6. \A t \in SUBSET s : t \in P
    BY <2>1, <2>4, <2>5, SubsetInduction
  <2> QED
    BY <2>2, <2>6 DEF P
<1> QED
  BY <1>6, <1>7, <1>8 DEF Sums

(***************************************************************************)
(* The lines of the logs                                                   *)
(***************************************************************************)
Lines == [key : Messages, ts : Nat, io : Nat]
Usages == [Messages -> [ts : Nat \cup {-1}, io : Nat]]
LastLine(k, u) == [key |-> k, ts |-> u[k].ts, io |-> u[k].io]

\* A file of lines no newer than what is known of their messages, each followed by
\* the last line of its message: u is what each message used, and when.
FileOK(q, u) ==
  /\ q \in Seq(Lines)
  /\ \A i \in 1..Len(q) :
       /\ q[i].ts <= u[q[i].key].ts
       /\ \E j \in 1..Len(q) : i <= j /\ q[j] = LastLine(q[i].key, u)

\* The lines of q are among those of r.
Within(q, r) == \A i \in 1..Len(q) : \E j \in 1..Len(r) : r[j] = q[i]

\* A file without lines.
LEMMA EmptyFile ==
  ASSUME NEW u
  PROVE  FileOK(<<>>, u)
BY EmptySeq DEF FileOK

\* Two files one after the other.
LEMMA FilesJoin ==
  ASSUME NEW u, NEW p, NEW q, FileOK(p, u), FileOK(q, u)
  PROVE  FileOK(p \o q, u) /\ Within(p, p \o q) /\ Within(q, p \o q)
<1> DEFINE r == p \o q
<1> HIDE DEF Lines
<1>1. p \in Seq(Lines) /\ q \in Seq(Lines)
  BY DEF FileOK
<1>2. PICK m \in Nat : m = Len(p)
  BY <1>1, LenProperties
<1>3. PICK n \in Nat : n = Len(q)
  BY <1>1, LenProperties
<1>4. /\ r \in Seq(Lines) /\ Len(r) = m + n
      /\ \A i \in 1..Len(p) + Len(q) : r[i] = IF i <= Len(p) THEN p[i] ELSE q[i - Len(p)]
  BY <1>1, <1>2, <1>3, ConcatProperties
<1> HIDE DEF r
<1>5. \A i \in 1..m : i \in 1..(m + n) /\ r[i] = p[i]
  BY <1>2, <1>3, <1>4
<1>6. \A i \in 1..n : m + i \in 1..(m + n) /\ r[m + i] = q[i]
  <2> SUFFICES ASSUME NEW i \in 1..n
               PROVE  m + i \in 1..(m + n) /\ r[m + i] = q[i]
    OBVIOUS
  <2>1. m + i \in 1..(m + n) /\ ~(m + i <= m) /\ (m + i) - m = i
    OBVIOUS
  <2> QED
    BY <1>2, <1>3, <1>4, <2>1
<1>7. ASSUME NEW i \in 1..(m + n)
      PROVE  /\ r[i].ts <= u[r[i].key].ts
             /\ \E j \in 1..(m + n) : i <= j /\ r[j] = LastLine(r[i].key, u)
  <2>1. CASE i <= m
    <3>1. i \in 1..m
      BY <2>1
    <3>2. /\ p[i].ts <= u[p[i].key].ts
          /\ \E j \in 1..m : i <= j /\ p[j] = LastLine(p[i].key, u)
      BY <1>2, <3>1 DEF FileOK
    <3> QED
      BY <1>5, <3>1, <3>2
  <2>2. CASE ~(i <= m)
    <3>1. PICK k \in 1..n : i = m + k
      <4>1. i - m \in 1..n /\ i = m + (i - m)
        BY <2>2
      <4> QED
        BY <4>1
    <3>2. q[k].ts <= u[q[k].key].ts
      BY <1>3 DEF FileOK
    <3>3. PICK j \in 1..n : k <= j /\ q[j] = LastLine(q[k].key, u)
      BY <1>3 DEF FileOK
    <3>4. m + j \in 1..(m + n) /\ i <= m + j /\ r[m + j] = q[j] /\ r[i] = q[k]
      BY <1>6, <3>1, <3>3
    <3> QED
      BY <3>2, <3>3, <3>4
  <2> QED
    BY <2>1, <2>2
<1>8. FileOK(r, u)
  BY <1>4, <1>7 DEF FileOK
<1>9. Within(p, r) /\ Within(q, r)
  BY <1>2, <1>3, <1>4, <1>5, <1>6 DEF Within
<1> QED
  BY <1>8, <1>9 DEF r

\* Within is transitive.
LEMMA WithinAll ==
  ASSUME NEW p, NEW q, NEW r, Within(p, q), Within(q, r)
  PROVE  Within(p, r)
BY DEF Within

\* L holds the lines of all files, and is such a file.
Gathers(L, files, u) == FileOK(L, u) /\ \A f \in LogFiles : Within(files[f], L)

\* All lines are those of the files, one file after the other.
LEMMA AllLinesGathered ==
  ASSUME NEW u, \A f \in LogFiles : FileOK(log[f], u)
  PROVE  Gathers(AllLines, log, u)
<1> DEFINE V == {q \in Seq(Lines) : FileOK(q, u)}
           op == [p \in LogFiles \X V |-> p[2] \o log[p[1]]]
           c == [s \in SUBSET LogFiles |-> CHOOSE x \in s : TRUE]
           F == CHOOSE g : g = [t \in SUBSET LogFiles |->
                  IF t = {} THEN <<>>
                  ELSE g[t \ {CHOOSE x \in t : TRUE}] \o log[CHOOSE x \in t : TRUE]]
<1>0. IsFiniteSet(LogFiles)
  BY QuotaLogAssumption
<1>1. AllLines = F[LogFiles]
  BY DEF AllLines, FoldSet, MapThenFoldSet
<1>2. op \in [LogFiles \X V -> V]
  <2>1. ASSUME NEW f \in LogFiles, NEW q \in V
        PROVE  q \o log[f] \in V
    <3>1. FileOK(q \o log[f], u)
      BY FilesJoin
    <3> QED
      BY <3>1 DEF FileOK
  <2> HIDE DEF V
  <2> QED
    BY <2>1
<1>3. <<>> \in V
  BY EmptyFile DEF FileOK
<1>4. \A s \in SUBSET LogFiles : s # {} => c[s] \in s /\ c[s] = CHOOSE x \in s : TRUE
  OBVIOUS
<1> HIDE DEF V, c
<1>5. PICK g \in [SUBSET LogFiles -> V] : Folds(g, LogFiles, <<>>, c, op)
  <2> HIDE DEF op
  <2> QED
    BY <1>0, <1>2, <1>3, <1>4, FoldExists
<1>6. \A s \in SUBSET LogFiles : s # {} =>
        op[<<c[s], g[s \ {c[s]}]>>] = g[s \ {CHOOSE x \in s : TRUE}] \o log[CHOOSE x \in s : TRUE]
  BY <1>4
<1> HIDE DEF op
<1>7. g = [t \in SUBSET LogFiles |->
             IF t = {} THEN <<>>
             ELSE g[t \ {CHOOSE x \in t : TRUE}] \o log[CHOOSE x \in t : TRUE]]
  BY <1>5, <1>6 DEF Folds
<1>8. F = [t \in SUBSET LogFiles |->
             IF t = {} THEN <<>>
             ELSE F[t \ {CHOOSE x \in t : TRUE}] \o log[CHOOSE x \in t : TRUE]]
  BY <1>7
<1> HIDE DEF F
<1> DEFINE P == {s \in SUBSET LogFiles : FileOK(F[s], u) /\ \A f \in s : Within(log[f], F[s])}
<1>9. {} \in P
  <2>1. F[{}] = <<>>
    BY <1>8
  <2> QED
    BY <2>1, EmptyFile
<1>10. ASSUME NEW s \in SUBSET LogFiles, s # {}, \A x \in s : s \ {x} \in P
       PROVE  s \in P
  <2>1. PICK x \in s : F[s] = F[s \ {x}] \o log[x]
    BY <1>8, <1>10
  <2>2. FileOK(F[s \ {x}], u) /\ \A f \in s \ {x} : Within(log[f], F[s \ {x}])
    BY <1>10
  <2>3. FileOK(log[x], u)
    OBVIOUS
  <2>4. PICK a : a = F[s \ {x}]
    OBVIOUS
  <2>5. PICK b : b = log[x]
    OBVIOUS
  <2>6. FileOK(a \o b, u) /\ Within(a, a \o b) /\ Within(b, a \o b)
    BY <2>2, <2>3, <2>4, <2>5, FilesJoin
  <2>7. \A f \in s : Within(log[f], a \o b)
    BY <2>2, <2>4, <2>5, <2>6, WithinAll
  <2> QED
    BY <2>1, <2>4, <2>5, <2>6, <2>7
<1> HIDE DEF P
<1>11. \A s \in SUBSET LogFiles : s \in P
  BY <1>0, <1>9, <1>10, SubsetInduction
<1> QED
  BY <1>1, <1>11 DEF P, Gathers

\* Everything said of a message is in the logs: it is counted from its lines, the
\* last of which says what it used.
Logged(files, u) ==
  /\ u \in Usages /\ files \in [LogFiles -> Seq(Lines)]
  /\ \A f \in LogFiles : FileOK(files[f], u)
  /\ \A m \in Messages : u[m].ts # -1 =>
       \E f \in LogFiles : \E i \in 1..Len(files[f]) : files[f][i].key = m

\* So the map made of all lines holds for each message used since then what it used.
LEMMA TheMapIsUsage ==
  ASSUME Logged(log, usage), now \in Nat, \A m \in Messages : usage[m].ts <= now,
         NEW from \in Nat
  PROVE  LastOfEach(AllLines, from) = [m \in Used(from) |-> usage[m]]
<1>1. PICK u \in Usages : u = usage
  BY DEF Logged
<1>2. PICK L : L = AllLines
  OBVIOUS
<1>3. FileOK(L, u) /\ \A f \in LogFiles : Within(log[f], L)
  <2>1. \A f \in LogFiles : FileOK(log[f], u)
    BY <1>1 DEF Logged
  <2>2. Gathers(AllLines, log, u)
    BY <2>1, AllLinesGathered
  <2> QED
    BY <1>2, <2>2 DEF Gathers
<1>4. PICK n \in Nat : n = Len(L) /\ DOMAIN L = 1..n
  BY <1>3, LenProperties DEF FileOK
<1>5. \A i \in 1..n : L[i] \in Lines
  BY <1>3, <1>4, ElementOfSeq DEF FileOK
<1>6. \A m \in Messages : u[m] = [ts |-> u[m].ts, io |-> u[m].io]
        /\ u[m].ts \in Nat \cup {-1} /\ u[m].io \in Nat /\ u[m].ts <= now
  BY <1>1 DEF Usages
<1> DEFINE is == InWindow(L, from)
<1>7. is = {i \in 1..n : from <= L[i].ts /\ L[i].ts <= now}
  BY <1>4 DEF InWindow
<1> HIDE DEF is
<1>8. \A i \in is : /\ i \in 1..n /\ L[i].key \in Messages /\ L[i].ts \in Nat
                    /\ from <= L[i].ts /\ L[i].ts <= u[L[i].key].ts
  BY <1>3, <1>4, <1>5, <1>7 DEF FileOK, Lines
<1>9. \A i \in is : \E j \in is : i <= j /\ L[j] = LastLine(L[i].key, u)
  <2> SUFFICES ASSUME NEW i \in is
               PROVE  \E j \in is : i <= j /\ L[j] = LastLine(L[i].key, u)
    OBVIOUS
  <2>1. PICK j \in 1..n : i <= j /\ L[j] = LastLine(L[i].key, u)
    BY <1>3, <1>4, <1>8 DEF FileOK
  <2>2. L[j].ts = u[L[i].key].ts
    BY <2>1 DEF LastLine
  <2>3. from <= L[j].ts /\ L[j].ts <= now
    <3>1. L[i].key \in Messages /\ from <= L[i].ts /\ L[i].ts <= u[L[i].key].ts /\ L[i].ts \in Nat
      BY <1>8
    <3>2. u[L[i].key].ts \in Nat \cup {-1} /\ u[L[i].key].ts <= now
      BY <1>6, <3>1
    <3> QED
      BY <2>2, <3>1, <3>2
  <2> QED
    BY <1>7, <2>1, <2>3
<1>10. {L[i].key : i \in is} = Used(from)
  <2>1. ASSUME NEW i \in is
        PROVE  L[i].key \in Used(from)
    <3>1. u[L[i].key].ts >= from /\ u[L[i].key].ts >= 0
      <4>1. L[i].key \in Messages /\ from <= L[i].ts /\ L[i].ts <= u[L[i].key].ts /\ L[i].ts \in Nat
        BY <1>8
      <4>2. u[L[i].key].ts \in Nat \cup {-1}
        BY <1>6, <4>1
      <4> QED
        BY <4>1, <4>2
    <3> QED
      BY <1>1, <1>8, <3>1 DEF Used
  <2>2. ASSUME NEW m \in Used(from)
        PROVE  \E i \in is : L[i].key = m
    <3>1. m \in Messages /\ u[m].ts >= from /\ u[m].ts >= 0
      BY <1>1 DEF Used
    <3>2. PICK f \in LogFiles : \E i \in 1..Len(log[f]) : log[f][i].key = m
      BY <1>1, <1>6, <3>1 DEF Logged
    <3>3. PICK i \in 1..n : L[i].key = m
      BY <1>3, <1>4, <3>2 DEF Within
    <3>4. PICK j \in 1..n : L[j] = LastLine(m, u)
      BY <1>3, <1>4, <3>3 DEF FileOK
    <3>5. L[j].key = m /\ L[j].ts = u[m].ts
      BY <3>4 DEF LastLine
    <3>6. j \in is
      BY <1>6, <1>7, <3>1, <3>5
    <3> QED
      BY <3>5, <3>6
  <2> QED
    BY <2>1, <2>2
<1> DEFINE LastOne(k, i) == /\ L[i].key = k
                         /\ \A j \in is : L[j].key = k =>
                              L[j].ts < L[i].ts \/ (L[j].ts = L[i].ts /\ j <= i)
<1>11. ASSUME NEW k \in {L[i].key : i \in is}
       PROVE  \E i \in is : LastOne(k, i)
  <2> DEFINE T == {j \in is : L[j] = LastLine(k, u)}
  <2>1. PICK i0 \in is : L[i0].key = k
    BY <1>11
  <2>2. T # {} /\ T \subseteq Nat /\ \A t \in T : t <= n
    BY <1>8, <1>9, <2>1
  <2>3. PICK i \in T : \A t \in T : t <= i
    <3> DEFINE U == {n - t : t \in T}
    <3>1. U \subseteq Nat /\ U # {}
      BY <2>2
    <3>2. \A t \in T : n - t \in U
      OBVIOUS
    <3>3. PICK d \in U : \A x \in U : d <= x
      <4> HIDE DEF U
      <4> QED
        BY <3>1, LeastOf
    <3>4. PICK i \in T : d = n - i
      BY <3>3
    <3> HIDE DEF U, T
    <3>5. \A t \in T : n - i <= n - t
      BY <3>2, <3>3, <3>4
    <3> QED
      BY <2>2, <3>4, <3>5
  <2>4. i \in is /\ L[i].key = k /\ L[i].ts = u[k].ts
    BY <2>3 DEF LastLine
  <2>5. ASSUME NEW j \in is, L[j].key = k
        PROVE  L[j].ts < L[i].ts \/ (L[j].ts = L[i].ts /\ j <= i)
    <3>1. PICK t \in is : j <= t /\ L[t] = LastLine(k, u)
      BY <1>9, <2>5
    <3>2. t \in T
      BY <3>1
    <3> HIDE DEF T
    <3>3. t <= i /\ L[j].ts <= u[k].ts
      BY <1>8, <2>3, <2>5, <3>2
    <3>4. j \in Nat /\ t \in Nat /\ i \in Nat /\ L[j].ts \in Nat /\ L[i].ts \in Nat
      BY <1>8, <2>4, <3>1
    <3> QED
      BY <2>4, <3>1, <3>3, <3>4
  <2> QED
    BY <2>4, <2>5
<1>12. ASSUME NEW k \in {L[i].key : i \in is}, NEW i \in is, LastOne(k, i)
       PROVE  [ts |-> L[i].ts, io |-> L[i].io] = u[k]
  <2>1. PICK j \in is : i <= j /\ L[j] = LastLine(k, u)
    BY <1>9, <1>12
  <2>2. L[j].key = k /\ L[j].ts = u[k].ts /\ L[j].io = u[k].io
    BY <2>1 DEF LastLine
  <2>3. L[j].ts < L[i].ts \/ (L[j].ts = L[i].ts /\ j <= i)
    BY <1>12, <2>2
  <2>4. L[i].ts <= u[k].ts /\ L[i].ts \in Nat /\ L[j].ts \in Nat /\ i \in Nat /\ j \in Nat
        /\ k \in Messages
    BY <1>8, <1>12, <2>1
  <2>5. i = j
    BY <2>1, <2>2, <2>3, <2>4
  <2> QED
    BY <1>6, <2>2, <2>4, <2>5
<1>13. LastOfEach(L, from) =
         [k \in {L[i].key : i \in is} |->
            [ts |-> L[CHOOSE i \in is : LastOne(k, i)].ts, io |-> L[CHOOSE i \in is : LastOne(k, i)].io]]
  BY DEF LastOfEach, is
<1>14. ASSUME NEW k \in {L[i].key : i \in is}
       PROVE  [ts |-> L[CHOOSE i \in is : LastOne(k, i)].ts, io |-> L[CHOOSE i \in is : LastOne(k, i)].io] = u[k]
  <2>1. PICK i \in is : i = CHOOSE j \in is : LastOne(k, j)
    BY <1>11
  <2>2. LastOne(k, i)
    BY <1>11, <2>1
  <2> QED
    BY <1>12, <2>1, <2>2
<1> HIDE DEF LastOne
<1>15. LastOfEach(L, from) = [k \in {L[i].key : i \in is} |-> u[k]]
  BY <1>13, <1>14
<1> QED
  BY <1>1, <1>2, <1>10, <1>15

(***************************************************************************)
(* The block of the logs                                                   *)
(***************************************************************************)
Blocks == [start : Int, last : Int, tokens : Int]

\* b is the block the messages of s end in, G the sums over them: of less than
\* Block from a full hour to its last message, with all of its messages.
IsBlock(b, s, f, G) ==
  /\ b.start % Hour = 0 /\ 0 <= b.start /\ b.start <= b.last /\ b.last < b.start + Block
  /\ \A m \in s : f[m].ts <= b.last
  /\ \E m \in s : f[m].ts = b.last
  /\ b.tokens = G[{m \in s : f[m].ts >= b.start}]

\* What a division leaves.
LEMMA DivMod ==
  ASSUME NEW a \in Nat, NEW b \in Nat \ {0}
  PROVE  \E d \in Nat : \E r \in Nat : d = a \div b /\ r = a % b /\ r < b /\ a = b * d + r
<1>1. a \div b \in Nat
  OBVIOUS
<1>2. a % b \in Nat
  OBVIOUS
<1>3. a % b < b
  OBVIOUS
<1>4. ASSUME NEW d \in Nat, d = a \div b, NEW r \in Nat, r = a % b
      PROVE  a = b * d + r
  BY <1>4
<1> QED
  BY <1>1, <1>2, <1>3, <1>4

\* The hour of an instant.
LEMMA HourStarts ==
  ASSUME NEW t \in Nat
  PROVE  /\ BlockStart(t) \in Nat /\ BlockStart(t) % Hour = 0
         /\ BlockStart(t) <= t /\ t < BlockStart(t) + Hour
<1>1. Hour \in Nat \ {0}
  BY QuotaLogAssumption
<1>2. PICK h \in Nat \ {0} : h = Hour
  BY <1>1
<1>3. PICK d \in Nat : \E r \in Nat : d = t \div h /\ r = t % h /\ r < h /\ t = h * d + r
  BY DivMod
<1>4. PICK r \in Nat : d = t \div h /\ r = t % h /\ r < h /\ t = h * d + r
  BY <1>3
<1>7. t - r = h * d /\ h * d \in Nat
  BY <1>4
<1>8. (h * d) % h = 0
  BY <1>2
<1>9. BlockStart(t) = t - r
  BY <1>2, <1>4 DEF BlockStart
<1> QED
  BY <1>2, <1>4, <1>7, <1>8, <1>9

\* A full hour that is not after an instant is not after its hour.
LEMMA HourIsLatest ==
  ASSUME NEW t \in Nat, NEW a \in Nat, a % Hour = 0, a <= t
  PROVE  a <= BlockStart(t)
<1>1. PICK h \in Nat \ {0} : h = Hour
  BY QuotaLogAssumption
<1>2. PICK d \in Nat : \E r \in Nat : d = t \div h /\ r = t % h /\ r < h /\ t = h * d + r
  BY DivMod
<1>3. PICK e \in Nat : \E r \in Nat : e = a \div h /\ r = a % h /\ r < h /\ a = h * e + r
  BY DivMod
<1>4. PICK r \in Nat : r = t % h /\ r < h /\ t = h * d + r
  BY <1>2
<1>5. a = h * e
  <2>2. a % h = 0
    BY <1>1
  <2>3. h * e \in Nat
    OBVIOUS
  <2> QED
    BY <1>3, <2>2, <2>3
<1>6. e <= d
  <2> SUFFICES ASSUME d + 1 <= e PROVE FALSE
    OBVIOUS
  <2>1. h * (d + 1) <= h * e
    OBVIOUS
  <2>2. h * (d + 1) = h * d + h
    OBVIOUS
  <2>3. h * d \in Nat /\ h * e \in Nat
    OBVIOUS
  <2>4. t < h * d + h
    BY <1>4, <2>3
  <2> QED
    BY <1>5, <2>1, <2>2, <2>3, <2>4
<1>7. h * e <= h * d
  BY <1>6
<1>8. BlockStart(t) = h * d
  <2>1. h * d \in Nat
    OBVIOUS
  <2> QED
    BY <1>1, <1>4, <2>1 DEF BlockStart
<1> QED
  BY <1>5, <1>7, <1>8

\* A block is no shorter than an hour, and as many hours.
LEMMA BlockOfHours ==
  /\ Hour <= Block /\ Hour \in Nat \ {0} /\ Block \in Nat \ {0}
  /\ \A a \in Nat : a % Hour = 0 => (a + Block) % Hour = 0
<1>1. PICK h \in Nat \ {0} : h = Hour
  BY QuotaLogAssumption
<1>2. PICK b \in Nat \ {0} : b = Block
  BY QuotaLogAssumption
<1>3. b % h = 0
  BY <1>1, <1>2, QuotaLogAssumption
<1>4. PICK e \in Nat : \E r \in Nat : e = b \div h /\ r = b % h /\ r < h /\ b = h * e + r
  BY DivMod
<1>5. b = h * e
  <2>3. h * e \in Nat
    OBVIOUS
  <2> QED
    BY <1>3, <1>4, <2>3
<1>6. h <= b
  <2>1. e # 0
    BY <1>5
  <2>2. e >= 1
    BY <2>1
  <2>3. h * 1 <= h * e
    BY <2>2
  <2> QED
    BY <1>5, <2>3
<1>7. ASSUME NEW a \in Nat, a % h = 0
      PROVE  (a + b) % h = 0
  <2>1. PICK d \in Nat : \E r \in Nat : d = a \div h /\ r = a % h /\ r < h /\ a = h * d + r
    BY DivMod
  <2>2. a = h * d
    <3>2. h * d \in Nat
      OBVIOUS
    <3> QED
      BY <1>7, <2>1, <3>2
  <2>3. a + b = h * (d + e)
    BY <1>5, <2>2
  <2>4. d + e \in Nat
    OBVIOUS
  <2>5. (h * (d + e)) % h = 0
    BY <2>4
  <2> QED
    BY <2>3, <2>5
<1> QED
  BY <1>1, <1>2, <1>6, <1>7

\* The next message continues the block or starts one.
LEMMA BlockStep ==
  ASSUME NEW D, NEW f, NEW G, Sums(G, f, D), \A m \in D : f[m].ts \in Nat /\ f[m].io \in Nat,
         NEW s \in SUBSET D, NEW x \in s, \A m \in s : f[m].ts <= f[x].ts,
         NEW b \in Blocks,
         IF s \ {x} = {} THEN b = NoBlock ELSE IsBlock(b, s \ {x}, f, G)
  PROVE  InBlock(f[x], b) \in Blocks /\ IsBlock(InBlock(f[x], b), s, f, G)
<1> DEFINE c == InBlock(f[x], b)
           T == {m \in s : f[m].ts >= c.start}
<1>0. PICK t \in Nat : t = f[x].ts
  OBVIOUS
<1>00. PICK n \in Nat : n = f[x].io
  OBVIOUS
<1>1. PICK B \in Nat \ {0} : B = Block
  BY BlockOfHours
<1>2. PICK H \in Nat \ {0} : H = Hour
  BY BlockOfHours
<1>3. H <= B
  BY <1>1, <1>2, BlockOfHours
<1>4. s \ {x} \in SUBSET D /\ G[{}] = 0 /\ x \in D
      /\ \A r \in SUBSET D : x \in r => G[r] = G[r \ {x}] + n
  BY <1>00 DEF Sums
<1>5. CASE c = [start |-> BlockStart(t), last |-> t, tokens |-> n]
           /\ \A m \in s \ {x} : f[m].ts < BlockStart(t)
  <2>1. PICK a \in Nat : a = BlockStart(t)
    BY HourStarts
  <2>2. a % Hour = 0 /\ a <= t /\ t < a + H
    BY <1>2, <2>1, HourStarts
  <2>3. c.start = a /\ c.last = t /\ c.tokens = n
    BY <1>5, <2>1
  <2>4. T = {x}
    <3>1. \A m \in s \ {x} : f[m].ts \in Nat /\ f[m].ts < a
      BY <1>5, <2>1
    <3>2. \A m \in s \ {x} : ~(f[m].ts >= a)
      BY <3>1
    <3>3. x \in T
      BY <1>0, <2>2, <2>3
    <3> QED
      BY <2>3, <3>2, <3>3
  <2>5. c.tokens = G[T]
    <3>1. {x} \in SUBSET D /\ {x} \ {x} = {}
      OBVIOUS
    <3>2. G[{x}] = 0 + n
      BY <1>4, <3>1
    <3> QED
      BY <2>3, <2>4, <3>2
  <2>6. c \in Blocks
    BY <1>5, <2>1 DEF Blocks
  <2>7. c.start % Hour = 0 /\ 0 <= c.start /\ c.start <= c.last /\ c.last < c.start + Block
    BY <1>1, <1>3, <2>2, <2>3
  <2>8. (\A m \in s : f[m].ts <= c.last) /\ \E m \in s : f[m].ts = c.last
    BY <1>0, <2>3
  <2>9. c \in Blocks /\ IsBlock(c, s, f, G)
    <3> HIDE DEF c
    <3> QED
      BY <2>5, <2>6, <2>7, <2>8 DEF IsBlock
  <2> QED
    BY <2>9
<1>6. CASE b = NoBlock /\ s \ {x} = {}
  <2>1. c = [start |-> BlockStart(t), last |-> t, tokens |-> n]
    BY <1>0, <1>00, <1>6 DEF InBlock
  <2> QED
    BY <1>5, <1>6, <2>1
<1>7. CASE s \ {x} # {} /\ IsBlock(b, s \ {x}, f, G)
  <2>1. PICK a \in Nat : a = b.start
    BY <1>7 DEF IsBlock, Blocks
  <2>2. PICK l \in Nat : l = b.last
    BY <1>7, <2>1 DEF IsBlock, Blocks
  <2>3. a % Hour = 0 /\ a <= l /\ l < a + B
    BY <1>1, <1>7, <2>1, <2>2 DEF IsBlock
  <2>4. \A m \in s \ {x} : f[m].ts \in Nat /\ f[m].ts <= l
    BY <1>7, <2>2 DEF IsBlock
  <2>5. l <= t
    BY <1>0, <1>7, <2>2 DEF IsBlock
  <2>6. b # NoBlock
    BY <2>1 DEF NoBlock
  <2>7. CASE Follows(b, f[x])
    <3>1. a + B <= t
      BY <1>0, <1>1, <2>1, <2>2, <2>3, <2>7 DEF Follows
    <3>2. a + B \in Nat /\ (a + B) % Hour = 0
      <4>1. (a + Block) % Hour = 0
        BY <2>3, BlockOfHours
      <4> QED
        BY <1>1, <4>1
    <3>3. a + B <= BlockStart(t)
      BY <3>1, <3>2, HourIsLatest
    <3>4. PICK z \in Nat : z = BlockStart(t)
      BY HourStarts
    <3>5. \A m \in s \ {x} : f[m].ts < z
      BY <2>3, <2>4, <3>3, <3>4
    <3>6. c = [start |-> BlockStart(t), last |-> t, tokens |-> n]
      BY <1>0, <1>00, <2>7 DEF InBlock
    <3> QED
      BY <1>5, <3>4, <3>5, <3>6
  <2>8. CASE ~Follows(b, f[x])
    <3>1. c = [b EXCEPT !.last = t, !.tokens = @ + n]
      BY <1>0, <1>00, <2>6, <2>8 DEF InBlock
    <3>2. c.start = a /\ c.last = t /\ c.tokens = b.tokens + n /\ c \in Blocks
      <4>1. PICK k \in Int : k = b.tokens
        BY DEF Blocks
      <4>2. b = [start |-> a, last |-> l, tokens |-> k]
        BY <2>1, <2>2, <4>1 DEF Blocks
      <4>3. c = [start |-> a, last |-> t, tokens |-> k + n]
        BY <3>1, <4>2
      <4> QED
        BY <4>1, <4>3 DEF Blocks
    <3>3. t < a + B
      BY <1>0, <1>1, <2>1, <2>8 DEF Follows
    <3>4. T = {m \in s \ {x} : f[m].ts >= a} \cup {x}
      BY <1>0, <2>3, <2>5, <3>2
    <3>5. T \in SUBSET D /\ x \in T /\ T \ {x} = {m \in s \ {x} : f[m].ts >= a}
      BY <3>4
    <3>6. b.tokens = G[T \ {x}]
      BY <1>7, <2>1, <3>5 DEF IsBlock
    <3>7. c.tokens = G[T]
      BY <1>4, <3>2, <3>5, <3>6
    <3>8. c.start % Hour = 0 /\ 0 <= c.start /\ c.start <= c.last /\ c.last < c.start + Block
      BY <1>1, <2>3, <2>5, <3>2, <3>3
    <3>9. (\A m \in s : f[m].ts <= c.last) /\ \E m \in s : f[m].ts = c.last
      BY <1>0, <3>2
    <3>10. c \in Blocks /\ IsBlock(c, s, f, G)
      <4> HIDE DEF c
      <4> QED
        BY <3>2, <3>7, <3>8, <3>9 DEF IsBlock
    <3> QED
      BY <3>10
  <2> QED
    BY <2>7, <2>8
<1> QED
  BY <1>6, <1>7

\* One of the messages is the latest.
LEMMA LatestOf ==
  ASSUME NEW s, s # {}, IsFiniteSet(s), NEW f, \A m \in s : f[m].ts \in Nat
  PROVE  \E x \in s : \A m \in s : f[m].ts <= f[x].ts
<1> DEFINE P == {t \in SUBSET s : t # {} => \E x \in t : \A m \in t : f[m].ts <= f[x].ts}
<1>1. {} \in P
  OBVIOUS
<1>2. ASSUME NEW t \in SUBSET s, t # {}, \A x \in t : t \ {x} \in P
      PROVE  t \in P
  <2>1. PICK x \in t : t \ {x} \in P
    BY <1>2
  <2>2. CASE t \ {x} = {}
    BY <2>2
  <2>3. CASE t \ {x} # {}
    <3>1. PICK y \in t \ {x} : \A m \in t \ {x} : f[m].ts <= f[y].ts
      BY <2>1, <2>3
    <3>2. f[x].ts <= f[y].ts \/ f[y].ts <= f[x].ts
      OBVIOUS
    <3>3. CASE f[x].ts <= f[y].ts
      BY <3>1, <3>3
    <3>4. CASE f[y].ts <= f[x].ts
      <4>1. \A m \in t : f[m].ts <= f[x].ts
        BY <3>1, <3>4
      <4> QED
        BY <4>1
    <3> QED
      BY <3>2, <3>3, <3>4
  <2> QED
    BY <2>2, <2>3
<1> HIDE DEF P
<1>3. \A t \in SUBSET s : t \in P
  BY <1>1, <1>2, SubsetInduction
<1> QED
  BY <1>3 DEF P

\* The messages of M, by which the block of the logs is made, in their order.
LatestIn(M, s) == CHOOSE k \in s : \A j \in s : M[j].ts <= M[k].ts
BlockFold(g, M) ==
  g = [s \in SUBSET DOMAIN M |->
         IF s = {} THEN NoBlock ELSE InBlock(M[LatestIn(M, s)], g[s \ {LatestIn(M, s)}])]

\* Of the messages of a map, the last block is one, of those that are in it.
LEMMA BlockOfMap ==
  ASSUME NEW D, IsFiniteSet(D), NEW M, DOMAIN M = D,
         \A m \in D : M[m].ts \in Nat /\ M[m].io \in Nat,
         NEW G, Sums(G, M, D)
  PROVE  /\ \E g : BlockFold(g, M)
         /\ \A g : BlockFold(g, M) =>
              g[D] \in Blocks /\ IF D = {} THEN g[D] = NoBlock ELSE IsBlock(g[D], D, M, G)
<1> DEFINE c == [s \in SUBSET D |-> LatestIn(M, s)]
           op == [p \in D \X Blocks |-> InBlock(M[p[1]], p[2])]
<1>1. \A s \in SUBSET D : s # {} =>
        LatestIn(M, s) \in s /\ \A j \in s : M[j].ts <= M[LatestIn(M, s)].ts
  <2> SUFFICES ASSUME NEW s \in SUBSET D, s # {}
               PROVE  LatestIn(M, s) \in s /\ \A j \in s : M[j].ts <= M[LatestIn(M, s)].ts
    OBVIOUS
  <2>1. IsFiniteSet(s)
    BY FS_Subset
  <2>2. \E x \in s : \A m \in s : M[m].ts <= M[x].ts
    BY <2>1, LatestOf
  <2> QED
    BY <2>2 DEF LatestIn
<1>2. NoBlock \in Blocks
  BY DEF NoBlock, Blocks
<1>3. op \in [D \X Blocks -> Blocks]
  <2>1. ASSUME NEW m \in D, NEW b \in Blocks
        PROVE  InBlock(M[m], b) \in Blocks
    <3>1. M[m].ts \in Nat /\ M[m].io \in Nat
      OBVIOUS
    <3>2. PICK t \in Nat : t = M[m].ts
      BY <3>1
    <3>3. PICK n \in Nat : n = M[m].io
      BY <3>1
    <3>4. PICK h \in Nat : h = BlockStart(t)
      BY HourStarts
    <3>5. [start |-> h, last |-> t, tokens |-> n] \in Blocks
      BY DEF Blocks
    <3>6. PICK k \in Int : k = b.tokens
      BY DEF Blocks
    <3>7. PICK a \in Int : a = b.start
      BY DEF Blocks
    <3>10. PICK l \in Int : l = b.last
      BY DEF Blocks
    <3>11. b = [start |-> a, last |-> l, tokens |-> k]
      BY <3>6, <3>7, <3>10 DEF Blocks
    <3>8. PICK e : e = [b EXCEPT !.last = t, !.tokens = @ + n]
      OBVIOUS
    <3>12. e = [start |-> a, last |-> t, tokens |-> k + n]
      BY <3>8, <3>11
    <3>9. [start |-> a, last |-> t, tokens |-> k + n] \in Blocks
      BY DEF Blocks
    <3> QED
      BY <3>2, <3>3, <3>4, <3>5, <3>8, <3>9, <3>12 DEF InBlock
  <2> QED
    BY <2>1
<1>4. \A s \in SUBSET D : s # {} => c[s] \in s /\ c[s] = LatestIn(M, s)
  BY <1>1
<1>5. \E g : BlockFold(g, M)
  <2>1. PICK g \in [SUBSET D -> Blocks] : Folds(g, D, NoBlock, c, op)
    <3> HIDE DEF c, op
    <3> QED
      BY <1>2, <1>3, <1>4, FoldExists
  <2>2. \A s \in SUBSET D : s # {} =>
          op[<<c[s], g[s \ {c[s]}]>>] = InBlock(M[LatestIn(M, s)], g[s \ {LatestIn(M, s)}])
    <3> SUFFICES ASSUME NEW s \in SUBSET D, s # {}
                 PROVE  op[<<c[s], g[s \ {c[s]}]>>] = InBlock(M[LatestIn(M, s)], g[s \ {LatestIn(M, s)}])
      OBVIOUS
    <3> HIDE DEF c
    <3>1. c[s] \in D /\ c[s] = LatestIn(M, s) /\ s \ {c[s]} \in SUBSET D
      BY <1>4
    <3>2. <<c[s], g[s \ {c[s]}]>> \in D \X Blocks
      BY <3>1
    <3> QED
      BY <3>1, <3>2
  <2> HIDE DEF c, op
  <2>3. g = [s \in SUBSET D |-> IF s = {} THEN NoBlock ELSE op[<<c[s], g[s \ {c[s]}]>>]]
    BY <2>1 DEF Folds
  <2>4. \A s \in SUBSET D : g[s] = IF s = {} THEN NoBlock
                                   ELSE InBlock(M[LatestIn(M, s)], g[s \ {LatestIn(M, s)}])
    BY <2>2, <2>3
  <2>5. g = [s \in SUBSET DOMAIN M |-> g[s]]
    OBVIOUS
  <2> QED
    BY <2>4, <2>5 DEF BlockFold
<1>6. ASSUME NEW g, BlockFold(g, M)
      PROVE  g[D] \in Blocks /\ IF D = {} THEN g[D] = NoBlock ELSE IsBlock(g[D], D, M, G)
  <2> DEFINE P == {s \in SUBSET D : g[s] \in Blocks
                     /\ IF s = {} THEN g[s] = NoBlock ELSE IsBlock(g[s], s, M, G)}
  <2>1. {} \in P
    BY <1>2, <1>6 DEF BlockFold
  <2>2. ASSUME NEW s \in SUBSET D, s # {}, \A x \in s : s \ {x} \in P
        PROVE  s \in P
    <3>1. PICK x \in s : x = LatestIn(M, s) /\ \A j \in s : M[j].ts <= M[x].ts
      BY <1>1, <2>2
    <3>2. g[s] = InBlock(M[x], g[s \ {x}])
      BY <1>6, <2>2, <3>1 DEF BlockFold
    <3>3. g[s \ {x}] \in Blocks
          /\ IF s \ {x} = {} THEN g[s \ {x}] = NoBlock ELSE IsBlock(g[s \ {x}], s \ {x}, M, G)
      BY <2>2
    <3>4. PICK b \in Blocks : b = g[s \ {x}]
      BY <3>3
    <3>5. InBlock(M[x], b) \in Blocks /\ IsBlock(InBlock(M[x], b), s, M, G)
      BY <3>1, <3>3, <3>4, BlockStep
    <3> QED
      BY <2>2, <3>2, <3>4, <3>5
  <2> HIDE DEF P
  <2>3. \A s \in SUBSET D : s \in P
    BY <2>1, <2>2, SubsetInduction
  <2> QED
    BY <2>3 DEF P
<1> QED
  BY <1>5, <1>6

\* So is that of the logs, of the messages that were used.
LEMMA TheLastBlock ==
  ASSUME Logged(log, usage), now \in Nat, \A m \in Messages : usage[m].ts <= now
  PROVE  \E G : /\ Sums(G, usage, Used(0))
                /\ LastBlock \in Blocks
                /\ IF Used(0) = {} THEN LastBlock = NoBlock
                   ELSE IsBlock(LastBlock, Used(0), usage, G)
<1> DEFINE D == Used(0)
           M == LastOfEach(AllLines, 0)
           F == CHOOSE g : g = [s \in SUBSET DOMAIN M |->
                  IF s = {} THEN NoBlock
                  ELSE InBlock(M[CHOOSE k \in s : \A j \in s : M[j].ts <= M[k].ts],
                               g[s \ {CHOOSE k \in s : \A j \in s : M[j].ts <= M[k].ts}])]
<1>1. LastBlock = F[DOMAIN M]
  BY DEF LastBlock, MapThenFoldSet
<1>2. M = [m \in D |-> usage[m]]
  BY TheMapIsUsage
<1>3. \A m \in D : usage[m].ts \in Nat /\ usage[m].io \in Nat /\ M[m] = usage[m]
  BY <1>2 DEF Used, Logged, Usages
<1>4. IsFiniteSet(D) /\ DOMAIN M = D
  BY <1>2, FS_Subset, QuotaLogAssumption DEF Used
<1>5. PICK G : Sums(G, usage, D)
  BY <1>3, <1>4, SumsExist
<1> HIDE DEF M
<1>6. Sums(G, M, D)
  <2>1. ASSUME NEW s \in SUBSET D
        PROVE  [m \in s |-> M[m]] = [m \in s |-> usage[m]]
    BY <1>3
  <2> HIDE DEF D
  <2> QED
    BY <1>3, <1>5, <2>1 DEF Sums
<1>7. PICK N : N = M
  OBVIOUS
<1> HIDE DEF D
<1>8. /\ \E g : BlockFold(g, N)
      /\ \A g : BlockFold(g, N) =>
           g[D] \in Blocks /\ IF D = {} THEN g[D] = NoBlock ELSE IsBlock(g[D], D, N, G)
  BY <1>3, <1>4, <1>6, <1>7, BlockOfMap
<1>9. BlockFold(F, M)
  <2>1. PICK g : BlockFold(g, M)
    BY <1>7, <1>8
  <2>2. g = [s \in SUBSET DOMAIN M |->
               IF s = {} THEN NoBlock
               ELSE InBlock(M[CHOOSE k \in s : \A j \in s : M[j].ts <= M[k].ts],
                            g[s \ {CHOOSE k \in s : \A j \in s : M[j].ts <= M[k].ts}])]
    BY <2>1 DEF BlockFold, LatestIn
  <2>3. F = [s \in SUBSET DOMAIN M |->
               IF s = {} THEN NoBlock
               ELSE InBlock(M[CHOOSE k \in s : \A j \in s : M[j].ts <= M[k].ts],
                            F[s \ {CHOOSE k \in s : \A j \in s : M[j].ts <= M[k].ts}])]
    BY <2>2
  <2> HIDE DEF F
  <2> QED
    BY <2>3 DEF BlockFold, LatestIn
<1> HIDE DEF F
<1>10. LastBlock \in Blocks /\ IF D = {} THEN LastBlock = NoBlock ELSE IsBlock(LastBlock, D, N, G)
  BY <1>1, <1>4, <1>7, <1>8, <1>9
<1>11. ASSUME NEW b, IsBlock(b, D, N, G)
       PROVE  IsBlock(b, D, usage, G)
  <2>1. \A m \in D : N[m].ts = usage[m].ts
    BY <1>3, <1>7
  <2>2. {m \in D : N[m].ts >= b.start} = {m \in D : usage[m].ts >= b.start}
    BY <2>1
  <2> QED
    BY <1>11, <2>1, <2>2 DEF IsBlock
<1> QED
  BY <1>5, <1>10, <1>11 DEF D

(***************************************************************************)
(* What is said of the usage                                               *)
(***************************************************************************)
Anchors == [pct : Nat, start : Nat, tokens : Nat]
LogInv ==
  /\ now \in Nat /\ Logged(log, usage) /\ \A m \in Messages : usage[m].ts <= now
  /\ anchor \in Anchors \cup {NoAnchor}
  /\ tokenCache \in [start : Int, at : Int, value : Nat]
  /\ pct5h \in [pct : Int, start : Int]
  /\ NeverBelowTheReading

\* What is counted since an instant is what the messages used since then.
LEMMA TokensAreCounted ==
  ASSUME LogInv, NEW from \in Nat
  PROVE  ClaudeBlockTokens(from) = UsedSince(from) /\ UsedSince(from) \in Nat
<1> DEFINE D == Used(from)
<1>1. LastOfEach(AllLines, from) = [m \in D |-> usage[m]]
  BY TheMapIsUsage DEF LogInv
<1>2. IsFiniteSet(D) /\ \A m \in D : usage[m].io \in Nat
  BY FS_Subset, QuotaLogAssumption DEF Used, LogInv, Logged, Usages
<1>3. PICK G : Sums(G, usage, D)
  BY <1>2, SumsExist
<1>4. Io([m \in D |-> usage[m]]) = G[D] /\ G[D] \in Nat
  BY <1>3 DEF Sums
<1> QED
  BY <1>1, <1>4 DEF ClaudeBlockTokens, UsedSince

\* So is what the cache holds of it.
LEMMA CacheIsACount ==
  ASSUME LogInv, NEW from \in Nat
  PROVE  /\ BlockTokensCached(from) \in [start : Int, at : Int, value : Nat]
         /\ BlockTokensCached(from).value \in Nat
<1>1. PICK n \in Nat : n = ClaudeBlockTokens(from)
  BY TokensAreCounted
<1>2. tokenCache \in [start : Int, at : Int, value : Nat] /\ now \in Nat
  BY DEF LogInv
<1> QED
  BY <1>1, <1>2 DEF BlockTokensCached

\* A percentage carried on by no fewer tokens than were read is no lower.
LEMMA NoLower ==
  ASSUME NEW p \in Nat, NEW n \in Nat, NEW d \in Nat, d > 0, n >= d
  PROVE  Rounded(p * n, d) \in Int /\ Rounded(p * n, d) >= p
<1>1. p * d <= p * n /\ p * d \in Nat /\ p * n \in Nat
  OBVIOUS
<1>2. PICK a \in Nat : a = 2 * (p * n) + d
  BY <1>1
<1>3. PICK b \in Nat \ {0} : b = 2 * d
  OBVIOUS
<1>4. b * p <= a
  <2>1. b * p = 2 * (p * d)
    BY <1>3
  <2> QED
    BY <1>1, <1>2, <2>1
<1>5. PICK q \in Nat : \E r \in Nat : q = a \div b /\ r = a % b /\ r < b /\ a = b * q + r
  BY DivMod
<1>6. p <= q
  <2> SUFFICES ASSUME q + 1 <= p PROVE FALSE
    OBVIOUS
  <2>1. b * (q + 1) <= b * p
    OBVIOUS
  <2>2. b * (q + 1) = b * q + b /\ b * q \in Nat /\ b * p \in Nat
    OBVIOUS
  <2>3. a < b * q + b
    BY <1>5, <2>2
  <2> QED
    BY <1>4, <2>1, <2>2, <2>3
<1>7. Rounded(p * n, d) = q
  BY <1>2, <1>3, <1>5 DEF Rounded
<1> QED
  BY <1>6, <1>7

\* A line is written: it is the last of its message, which no other file has.
LEMMA WriteKeeps ==
  ASSUME LogInv, NEW f \in LogFiles, NEW m \in Messages, Write(f, m)
  PROVE  LogInv'
<1>1. PICK u \in Usages : u = usage
  BY DEF LogInv, Logged
<1>2. PICK t \in Nat : t = now
  BY DEF LogInv
<1>3. PICK n \in Nat : n = u[m].io
  BY DEF Usages
<1>4. u[m].ts <= t /\ u[m].ts \in Nat \cup {-1}
  BY <1>1, <1>2 DEF LogInv, Usages
<1> DEFINE v == [u EXCEPT ![m] = [ts |-> t, io |-> n + 1]]
           q == log[f]
           l == [key |-> m, ts |-> t, io |-> n + 1]
           w == Append(q, l)
<1>5. usage' = v /\ v \in Usages /\ v[m] = [ts |-> t, io |-> n + 1]
      /\ \A k \in Messages \ {m} : v[k] = u[k]
  <2>1. usage' = [u EXCEPT ![m] = [ts |-> t, io |-> u[m].io + 1]]
    BY <1>1, <1>2 DEF Write
  <2>2. [ts |-> t, io |-> n + 1] \in [ts : Nat \cup {-1}, io : Nat]
    OBVIOUS
  <2> QED
    BY <1>3, <2>1, <2>2 DEF Usages
<1>6. log' = [log EXCEPT ![f] = w]
  BY <1>1, <1>2, <1>3 DEF Write, Line
<1>7. LastLine(m, v) = l /\ l \in Lines /\ l.ts = t /\ l.key = m
      /\ \A k \in Messages \ {m} : LastLine(k, v) = LastLine(k, u)
  BY <1>5 DEF LastLine, Lines
<1>8. FileOK(q, u) /\ \A g \in LogFiles : FileOK(log[g], u)
  BY <1>1 DEF LogInv, Logged
<1> HIDE DEF v, q, l
<1>9. PICK c \in Nat : c = Len(q)
  BY <1>8, LenProperties DEF FileOK
<1>10. /\ w \in Seq(Lines) /\ Len(w) = c + 1 /\ w[c + 1] = l
       /\ \A i \in 1..c : w[i] = q[i] /\ q[i] \in Lines
  <2> HIDE DEF Lines
  <2> QED
    BY <1>7, <1>8, <1>9, AppendProperties, ElementOfSeq DEF FileOK
<1> HIDE DEF w
<1>11. FileOK(w, v)
  <2>1. ASSUME NEW i \in 1..c
        PROVE  /\ w[i].ts <= v[w[i].key].ts
               /\ \E j \in 1..(c + 1) : i <= j /\ w[j] = LastLine(w[i].key, v)
    <3>1. q[i].ts <= u[q[i].key].ts /\ q[i].key \in Messages /\ q[i].ts \in Nat
      BY <1>8, <1>9, <1>10 DEF FileOK, Lines
    <3>2. PICK j \in 1..c : i <= j /\ q[j] = LastLine(q[i].key, u)
      BY <1>8, <1>9 DEF FileOK
    <3>3. CASE q[i].key = m
      <4>1. w[i].ts <= t
        BY <1>4, <1>10, <3>1, <3>3
      <4>2. c + 1 \in 1..(c + 1) /\ i <= c + 1
        OBVIOUS
      <4> QED
        BY <1>5, <1>7, <1>10, <3>3, <4>1, <4>2
    <3>4. CASE q[i].key # m
      <4>1. v[q[i].key] = u[q[i].key] /\ LastLine(q[i].key, v) = LastLine(q[i].key, u)
        BY <1>5, <1>7, <3>1, <3>4
      <4>2. j \in 1..(c + 1) /\ w[j] = q[j] /\ w[i] = q[i]
        BY <1>10
      <4> QED
        BY <3>1, <3>2, <4>1, <4>2
    <3> QED
      BY <3>3, <3>4
  <2>2. /\ w[c + 1].ts <= v[w[c + 1].key].ts
        /\ w[c + 1] = LastLine(w[c + 1].key, v) /\ c + 1 \in 1..(c + 1) /\ c + 1 <= c + 1
    BY <1>5, <1>7, <1>10
  <2>3. \A i \in 1..(c + 1) : i \in 1..c \/ i = c + 1
    OBVIOUS
  <2>4. \A i \in 1..Len(w) :
          /\ w[i].ts <= v[w[i].key].ts
          /\ \E j \in 1..Len(w) : i <= j /\ w[j] = LastLine(w[i].key, v)
    BY <1>10, <2>1, <2>2, <2>3
  <2> QED
    BY <1>10, <2>4 DEF FileOK
<1>12. ASSUME NEW g \in LogFiles, g # f
       PROVE  FileOK(log[g], v)
  <2>1. PICK p : p = log[g]
    OBVIOUS
  <2>2. \A i \in 1..Len(p) : p[i].key # m /\ p[i].key \in Messages
    <3>0. PICK e \in Nat : e = Len(p) /\ DOMAIN p = 1..e
      BY <1>8, <2>1, LenProperties DEF FileOK
    <3>1. \A i \in 1..Len(p) : p[i] \in ToSet(log[g]) /\ p[i] \in Lines
      BY <1>8, <2>1, <3>0, ElementOfSeq DEF FileOK, ToSet
    <3>2. \A x \in ToSet(log[g]) : x.key # m
      BY <1>12 DEF Write
    <3> QED
      BY <3>1, <3>2 DEF Lines
  <2>3. FileOK(p, u)
    BY <1>8, <2>1
  <2>4. FileOK(p, v)
    BY <1>5, <1>7, <2>2, <2>3 DEF FileOK
  <2> QED
    BY <2>1, <2>4
<1>0. log \in [LogFiles -> Seq(Lines)]
  BY DEF LogInv, Logged
<1>17. log' \in [LogFiles -> Seq(Lines)] /\ log'[f] = w /\ \A g \in LogFiles \ {f} : log'[g] = log[g]
  <2> HIDE DEF Lines
  <2> QED
    BY <1>0, <1>6, <1>10
<1>13. \A g \in LogFiles : FileOK(log'[g], v)
  BY <1>11, <1>12, <1>17
<1>14. ASSUME NEW k \in Messages, v[k].ts # -1
       PROVE  \E g \in LogFiles : \E i \in 1..Len(log'[g]) : log'[g][i].key = k
  <2>1. CASE k = m
    <3>1. Len(log'[f]) = c + 1 /\ log'[f][c + 1].key = m /\ c + 1 \in 1..(c + 1)
      BY <1>7, <1>10, <1>17
    <3> QED
      BY <2>1, <3>1
  <2>2. CASE k # m
    <3>1. u[k].ts # -1
      BY <1>5, <1>14, <2>2
    <3>2. PICK g \in LogFiles : \E i \in 1..Len(log[g]) : log[g][i].key = k
      BY <1>1, <3>1 DEF LogInv, Logged
    <3>3. PICK i \in 1..Len(log[g]) : log[g][i].key = k
      BY <3>2
    <3>4. CASE g # f
      BY <1>17, <3>3, <3>4
    <3>5. CASE g = f
      <4>1. i \in 1..c /\ q[i].key = k
        BY <1>9, <3>3, <3>5 DEF q
      <4>2. i \in 1..Len(w) /\ w[i].key = k
        BY <1>10, <4>1
      <4> QED
        BY <1>17, <4>2
    <3> QED
      BY <3>4, <3>5
  <2> QED
    BY <2>1, <2>2
<1>15. \A k \in Messages : v[k].ts <= now'
  BY <1>1, <1>2, <1>5 DEF LogInv, Write
<1>16. Logged(log', v)
  BY <1>5, <1>13, <1>14, <1>17 DEF Logged
<1> QED
  BY <1>5, <1>15, <1>16 DEF LogInv, Write, NeverBelowTheReading

\* The lines of a session are copied to a file that has none.
LEMMA ResumeKeeps ==
  ASSUME LogInv, NEW f \in LogFiles, NEW g \in LogFiles, Resume(f, g)
  PROVE  LogInv'
<1>1. log' = [log EXCEPT ![g] = log[f]] /\ log[g] = <<>> /\ usage' = usage /\ now' = now
  BY DEF Resume
<1>2. log \in [LogFiles -> Seq(Lines)]
  BY DEF LogInv, Logged
<1>3. log' \in [LogFiles -> Seq(Lines)] /\ log'[g] = log[f] /\ \A h \in LogFiles \ {g} : log'[h] = log[h]
  <2> HIDE DEF Lines
  <2> QED
    BY <1>1, <1>2
<1>4. \A h \in LogFiles : FileOK(log'[h], usage)
  BY <1>3 DEF LogInv, Logged
<1>5. ASSUME NEW m \in Messages, usage[m].ts # -1
      PROVE  \E h \in LogFiles : \E i \in 1..Len(log'[h]) : log'[h][i].key = m
  <2>1. PICK h \in LogFiles : \E i \in 1..Len(log[h]) : log[h][i].key = m
    BY <1>5 DEF LogInv, Logged
  <2>2. h # g
    <3>1. Len(<<>>) = 0 /\ 1..0 = {}
      BY EmptySeq
    <3> QED
      BY <1>1, <2>1, <3>1
  <2> QED
    BY <1>3, <2>1, <2>2
<1>6. Logged(log', usage)
  BY <1>3, <1>4, <1>5 DEF LogInv, Logged
<1> QED
  BY <1>1, <1>6 DEF LogInv, Resume, NeverBelowTheReading

\* The lines of a session are removed: what other files say of its messages stays.
LEMMA RemoveKeeps ==
  ASSUME LogInv, NEW f \in LogFiles, RemoveLog(f)
  PROVE  LogInv'
<1> DEFINE Kept(m) == \E g \in LogFiles \ {f} : \E l \in ToSet(log[g]) : l.key = m
           none == [ts |-> -1, io |-> 0]
<1>1. PICK u \in Usages : u = usage
  BY DEF LogInv, Logged
<1>2. PICK v : v = usage'
  OBVIOUS
<1>3. /\ log' = [log EXCEPT ![f] = <<>>] /\ now' = now
      /\ v = [m \in Messages |-> IF Kept(m) THEN u[m] ELSE none]
  BY <1>1, <1>2 DEF RemoveLog
<1>4. log \in [LogFiles -> Seq(Lines)]
  BY DEF LogInv, Logged
<1>5. log' \in [LogFiles -> Seq(Lines)] /\ log'[f] = <<>> /\ \A g \in LogFiles \ {f} : log'[g] = log[g]
  <2> HIDE DEF Lines
  <2> QED
    BY <1>3, <1>4
<1>6. none \in [ts : Nat \cup {-1}, io : Nat] /\ \A m \in Messages : u[m] \in [ts : Nat \cup {-1}, io : Nat]
  BY DEF Usages
<1>7. ASSUME NEW g \in LogFiles \ {f}, NEW i \in 1..Len(log[g])
      PROVE  log[g][i].key \in Messages /\ Kept(log[g][i].key)
  <2>1. log[g] \in Seq(Lines)
    BY <1>4
  <2>2. PICK n \in Nat : n = Len(log[g]) /\ DOMAIN log[g] = 1..n
    BY <2>1, LenProperties
  <2>3. log[g][i] \in Lines
    <3> HIDE DEF Lines
    <3> QED
      BY <2>1, <2>2, ElementOfSeq
  <2>4. log[g][i] \in ToSet(log[g])
    BY <2>2 DEF ToSet
  <2> QED
    BY <2>3, <2>4 DEF Lines
<1> HIDE DEF Kept, none
<1>8. v \in Usages
  <2>1. \A m \in Messages : (IF Kept(m) THEN u[m] ELSE none) \in [ts : Nat \cup {-1}, io : Nat]
    BY <1>6
  <2> QED
    BY <1>3, <2>1 DEF Usages
<1>9. ASSUME NEW g \in LogFiles \ {f}
      PROVE  FileOK(log[g], v)
  <2>1. FileOK(log[g], u)
    BY <1>1 DEF LogInv, Logged
  <2>2. \A i \in 1..Len(log[g]) : v[log[g][i].key] = u[log[g][i].key]
    BY <1>3, <1>7
  <2>3. PICK p : p = log[g]
    OBVIOUS
  <2>4. \A i \in 1..Len(p) : LastLine(p[i].key, v) = LastLine(p[i].key, u)
                              /\ v[p[i].key] = u[p[i].key]
    BY <2>2, <2>3 DEF LastLine
  <2> QED
    BY <2>1, <2>3, <2>4 DEF FileOK
<1>10. \A g \in LogFiles : FileOK(log'[g], v)
  BY <1>5, <1>9, EmptyFile
<1>11. ASSUME NEW m \in Messages, v[m].ts # -1
       PROVE  \E g \in LogFiles : \E i \in 1..Len(log'[g]) : log'[g][i].key = m
  <2>1. Kept(m)
    BY <1>3, <1>11 DEF none
  <2>2. PICK g \in LogFiles \ {f} : \E l \in ToSet(log[g]) : l.key = m
    BY <2>1 DEF Kept
  <2>3. PICK n \in Nat : n = Len(log[g]) /\ DOMAIN log[g] = 1..n
    BY <1>4, LenProperties
  <2>4. \E i \in 1..n : log[g][i].key = m
    BY <2>2, <2>3 DEF ToSet
  <2> QED
    BY <1>5, <2>3, <2>4
<1>12. \A m \in Messages : v[m].ts <= now
  <2>1. \A m \in Messages : u[m].ts <= now /\ now \in Nat
    BY <1>1 DEF LogInv
  <2>2. none.ts <= now
    BY <2>1 DEF none, LogInv
  <2> QED
    BY <1>3, <2>1, <2>2
<1>13. Logged(log', v)
  BY <1>5, <1>8, <1>10, <1>11 DEF Logged
<1>14. UNCHANGED <<anchor, tokenCache, pct5h>>
  BY DEF RemoveLog
<1> QED
  BY <1>2, <1>3, <1>12, <1>13, <1>14 DEF LogInv, NeverBelowTheReading

\* A reading: its percentage is of what was counted.
LEMMA ReadingKeeps ==
  ASSUME LogInv, Reading
  PROVE  LogInv'
<1>1. PICK start \in {t \in 0..now : t % Hour = 0 /\ t > now - Block} :
        LET c == BlockTokensCached(start) IN
        /\ anchor' = [pct |-> 1 + c.value, start |-> start, tokens |-> c.value]
        /\ tokenCache' = c
        /\ pct5h' = [pct |-> 1 + c.value, start |-> start]
        /\ UNCHANGED <<now, log, usage>>
  BY DEF Reading
<1>2. start \in Nat
  BY DEF LogInv
<1>3. PICK c : c = BlockTokensCached(start)
  OBVIOUS
<1>4. c \in [start : Int, at : Int, value : Nat] /\ c.value \in Nat
  BY <1>2, <1>3, CacheIsACount
<1>5. PICK n \in Nat : n = c.value
  BY <1>4
<1>6. /\ anchor' = [pct |-> 1 + n, start |-> start, tokens |-> n] /\ tokenCache' = c
      /\ pct5h' = [pct |-> 1 + n, start |-> start] /\ now' = now /\ log' = log /\ usage' = usage
  BY <1>1, <1>3, <1>5
<1>7. anchor' \in Anchors
  BY <1>2, <1>6 DEF Anchors
<1>8. pct5h' \in [pct : Int, start : Int] /\ NeverBelowTheReading'
  BY <1>2, <1>6 DEF NeverBelowTheReading
<1> QED
  BY <1>4, <1>6, <1>7, <1>8 DEF LogInv

\* The percentage is carried on: it is no lower than that of the reading.
LEMMA ExtrapolateKeeps ==
  ASSUME LogInv, ExtrapolateClaude5h
  PROVE  LogInv'
<1>1. anchor \in Anchors
  BY DEF LogInv, ExtrapolateClaude5h
<1>2. PICK start \in Nat : start = anchor.start
  BY <1>1 DEF Anchors
<1>3. PICK c : c = BlockTokensCached(start)
  OBVIOUS
<1>4. c \in [start : Int, at : Int, value : Nat] /\ c.value \in Nat
  BY <1>2, <1>3, CacheIsACount
<1>5. PICK n \in Nat : n = c.value
  BY <1>4
<1>6. PICK p \in Nat : p = anchor.pct
  BY <1>1 DEF Anchors
<1>7. PICK d \in Nat : d = anchor.tokens
  BY <1>1 DEF Anchors
<1>8. PICK e : e = IF Usable(n) THEN Rounded(p * n, d) ELSE p
  OBVIOUS
<1>9. /\ tokenCache' = (IF d > 0 THEN c ELSE tokenCache)
      /\ pct5h' = [start |-> start, pct |-> e]
      /\ UNCHANGED <<now, log, anchor, usage>>
  BY <1>2, <1>3, <1>5, <1>6, <1>7, <1>8 DEF ExtrapolateClaude5h
<1>10. e \in Int /\ e >= p
  <2>1. CASE Usable(n)
    <3>1. d > 0 /\ n >= d
      BY <1>7, <2>1 DEF Usable
    <3> QED
      BY <1>8, <2>1, <3>1, NoLower
  <2>2. CASE ~Usable(n)
    BY <1>8, <2>2
  <2> QED
    BY <2>1, <2>2
<1>11. pct5h' \in [pct : Int, start : Int]
  BY <1>9, <1>10
<1>12. NeverBelowTheReading'
  BY <1>6, <1>9, <1>10 DEF NeverBelowTheReading
<1>13. tokenCache' \in [start : Int, at : Int, value : Nat]
  BY <1>4, <1>9 DEF LogInv
<1> QED
  BY <1>9, <1>11, <1>12, <1>13 DEF LogInv

\* Every step of the logs keeps what is known of them.
LEMMA LogKeeps ==
  ASSUME LogInv, LogNext \/ UNCHANGED logVars
  PROVE  LogInv'
<1>1. CASE UNCHANGED logVars
  BY <1>1 DEF logVars, LogInv, NeverBelowTheReading
<1>2. CASE LogTick
  <2>1. now' = now + 1 /\ UNCHANGED <<log, anchor, tokenCache, pct5h, usage>> /\ now \in Nat
    BY <1>2 DEF LogTick, LogInv
  <2>2. \A m \in Messages : usage[m].ts <= now /\ usage[m].ts \in Int
    BY DEF LogInv, Logged, Usages
  <2>3. now' \in Nat /\ \A m \in Messages : usage'[m].ts <= now'
    BY <2>1, <2>2
  <2>4. Logged(log, usage)' /\ NeverBelowTheReading'
    BY <2>1 DEF LogInv, Logged, NeverBelowTheReading
  <2> QED
    BY <2>1, <2>3, <2>4 DEF LogInv
<1> QED
  BY <1>1, <1>2, WriteKeeps, ResumeKeeps, RemoveKeeps, ReadingKeeps, ExtrapolateKeeps DEF LogNext

\* What is known of the logs is what is said of them.
LEMMA LogSays ==
  ASSUME LogInv
  PROVE  EachMessageOnce /\ FallbackIsABlock /\ NeverBelowTheReading
<1>1. EachMessageOnce
  <2>1. \A start \in 0..now : start \in Nat
    BY DEF LogInv
  <2> QED
    BY <2>1, TokensAreCounted DEF EachMessageOnce
<1>2. FallbackIsABlock
  <2>1. PICK G : /\ Sums(G, usage, Used(0))
                 /\ LastBlock \in Blocks
                 /\ IF Used(0) = {} THEN LastBlock = NoBlock
                    ELSE IsBlock(LastBlock, Used(0), usage, G)
    BY TheLastBlock DEF LogInv
  <2>2. PICK b \in Blocks : b = LastBlock
    BY <2>1
  <2>3. CASE b = NoBlock \/ now >= b.start + Block
    BY <2>2, <2>3 DEF FallbackIsABlock, ClaudeFallbackBlockTokens
  <2>4. CASE ~(b = NoBlock \/ now >= b.start + Block)
    <3>1. PICK a \in Int : a = b.start
      BY DEF Blocks
    <3>2. PICK l \in Int : l = b.last
      BY DEF Blocks
    <3>3. PICK n : n = b.tokens
      OBVIOUS
    <3>4. Used(0) # {} /\ IsBlock(b, Used(0), usage, G)
      BY <2>1, <2>2, <2>4
    <3>5. a % Hour = 0 /\ 0 <= a /\ a <= l
      BY <3>1, <3>2, <3>4 DEF IsBlock
    <3>6. l <= now /\ now \in Nat
      <4>1. PICK m \in Used(0) : usage[m].ts = l
        BY <3>2, <3>4 DEF IsBlock
      <4> QED
        BY <4>1 DEF Used, LogInv
    <3>7. a <= now /\ now < a + Block
      BY <2>4, <3>1, <3>5, <3>6, BlockOfHours
    <3>8. n = UsedSince(a)
      <4>1. n = G[{m \in Used(0) : usage[m].ts >= a}]
        BY <3>1, <3>3, <3>4 DEF IsBlock
      <4>2. {m \in Used(0) : usage[m].ts >= a} = Used(a)
        <5>1. \A m \in Messages : usage[m].ts \in Int
          BY DEF LogInv, Logged, Usages
        <5> QED
          BY <3>5, <5>1 DEF Used
      <4>3. Used(a) \in SUBSET Used(0)
        BY <4>2
      <4>4. Io([m \in Used(a) |-> usage[m]]) = G[Used(a)]
        BY <2>1, <4>3 DEF Sums
      <4> QED
        BY <4>1, <4>2, <4>4 DEF UsedSince
    <3>9. ClaudeFallbackBlockTokens = [tokens |-> n, start |-> a]
      BY <2>2, <2>4, <3>1, <3>3 DEF ClaudeFallbackBlockTokens
    <3>10. a # -1
      BY <3>5
    <3> QED
      BY <3>5, <3>7, <3>8, <3>9, <3>10 DEF FallbackIsABlock
  <2> QED
    BY <2>3, <2>4
<1> QED
  BY <1>1, <1>2 DEF LogInv

(***************************************************************************)
(* The label of the reset                                                  *)
(***************************************************************************)
LabelInv ==
  /\ clock \in Nat /\ resetAt \in Nat
  /\ text # NoText =>
       /\ text.made \in Nat /\ text.made <= clock /\ text.made < resetAt
       /\ text.minutes = MinutesLeft(resetAt - text.made) /\ text.at = MinuteOfDay(resetAt)
  /\ DayIsRight

\* The day of an instant is the one it lies in.
LEMMA DayBounds ==
  ASSUME NEW t \in Nat, NEW w \in Nat \ {0}, w = Minute * Day
  PROVE  DayOf(t) \in Nat /\ w * DayOf(t) <= t /\ t < w * DayOf(t) + w
<1>1. PICK m \in Nat \ {0} : m = Minute
  BY ResetLabelAssumption
<1>2. PICK n \in Nat \ {0} : n = Day
  BY ResetLabelAssumption
<1>3. PICK q \in Nat : \E r \in Nat : q = t \div m /\ r = t % m /\ r < m /\ t = m * q + r
  BY DivMod
<1>4. PICK r \in Nat : r < m /\ t = m * q + r
  BY <1>3
<1>5. PICK d \in Nat : \E s \in Nat : d = q \div n /\ s = q % n /\ s < n /\ q = n * d + s
  BY DivMod
<1>6. PICK s \in Nat : s < n /\ q = n * d + s
  BY <1>5
<1>7. DayOf(t) = d
  BY <1>1, <1>2, <1>3, <1>5 DEF DayOf
<1>8. w = m * n
  BY <1>1, <1>2
<1>9. m * (n * d) = w * d
  BY <1>8
<1>10. m * q = m * (n * d) + m * s
  BY <1>6
<1>11. m * s \in Nat /\ m * s + m <= m * n
  <2>1. s + 1 <= n
    BY <1>6
  <2>2. m * (s + 1) <= m * n /\ m * (s + 1) = m * s + m
    BY <2>1
  <2> QED
    BY <2>2
<1>12. w * d \in Nat
  OBVIOUS
<1>13. PICK y \in Nat : y = w * d
  BY <1>12
<1>14. PICK z \in Nat : z = m * s
  BY <1>11
<1>15. t = (y + z) + r /\ z + m <= w
  BY <1>4, <1>8, <1>9, <1>10, <1>11, <1>13, <1>14
<1> QED
  BY <1>4, <1>7, <1>13, <1>15

\* A day has a number.
LEMMA DayIsNat ==
  \A t \in Nat : DayOf(t) \in Nat
BY ResetLabelAssumption DEF DayOf

\* Of two instants less than a day apart the second is of the same day or the next.
LEMMA DaysInOrder ==
  ASSUME NEW a \in Nat, NEW b \in Nat, a <= b
  PROVE  DayOf(a) <= DayOf(b) /\ (b < a + Minute * Day => DayOf(b) <= DayOf(a) + 1)
<1>1. PICK w \in Nat \ {0} : w = Minute * Day
  <2>1. \A m \in Nat \ {0} : \A n \in Nat \ {0} : m * n \in Nat \ {0}
    OBVIOUS
  <2> QED
    BY <2>1, ResetLabelAssumption
<1>2. PICK d \in Nat : d = DayOf(a) /\ w * d <= a /\ a < w * d + w
  BY <1>1, DayBounds
<1>3. PICK e \in Nat : e = DayOf(b) /\ w * e <= b /\ b < w * e + w
  BY <1>1, DayBounds
<1>4. w * d \in Nat /\ w * e \in Nat
  OBVIOUS
<1>5. d <= e
  <2> SUFFICES ASSUME e + 1 <= d PROVE FALSE
    OBVIOUS
  <2>1. w * (e + 1) <= w * d /\ w * (e + 1) = w * e + w
    OBVIOUS
  <2> QED
    BY <1>2, <1>3, <1>4, <2>1
<1>6. ASSUME b < a + w
      PROVE  e <= d + 1
  <2> SUFFICES ASSUME d + 2 <= e PROVE FALSE
    OBVIOUS
  <2>1. w * (d + 2) <= w * e
    OBVIOUS
  <2>2. w * (d + 2) = w * d + 2 * w
    OBVIOUS
  <2> QED
    BY <1>2, <1>3, <1>4, <1>6, <2>1, <2>2
<1> QED
  BY <1>1, <1>2, <1>3, <1>5, <1>6

\* The day of the label is made of the minutes that were left, rounded up, and of a
\* clock that is later by the age of the text.
LEMMA LabelKeeps ==
  ASSUME LabelInv, LabelNext \/ UNCHANGED labelVars
  PROVE  LabelInv'
<1>1. CASE UNCHANGED labelVars
  BY <1>1 DEF labelVars, LabelInv, DayIsRight, DayOf, MinuteOfDay, MinutesLeft
<1>2. CASE LabelTick
  <2>1. clock' = clock + 1 /\ label' = NoLabel /\ resetAt' = resetAt /\ text' = text
    BY <1>2 DEF LabelTick
  <2>2. DayIsRight'
    BY <2>1 DEF DayIsRight
  <2> QED
    BY <2>1, <2>2 DEF LabelInv, MinuteOfDay, MinutesLeft
<1>3. CASE FormatCountdown
  <2>1. /\ clock' = clock /\ label' = label /\ resetAt' = resetAt
        /\ text' = IF resetAt <= clock THEN NoText
                   ELSE [minutes |-> MinutesLeft(resetAt - clock), at |-> MinuteOfDay(resetAt), made |-> clock]
    BY <1>3 DEF FormatCountdown
  <2>2. DayIsRight'
    BY <2>1 DEF LabelInv, DayIsRight, DayOf, MinuteOfDay
  <2>3. clock \in Nat /\ resetAt \in Nat
    BY DEF LabelInv
  <2>4. text' # NoText =>
          /\ text'.made = clock /\ clock < resetAt
          /\ text'.minutes = MinutesLeft(resetAt - clock) /\ text'.at = MinuteOfDay(resetAt)
    BY <2>1, <2>3
  <2> QED
    BY <2>1, <2>2, <2>3, <2>4 DEF LabelInv, MinuteOfDay, MinutesLeft
<1>4. CASE ParseResetTimeInfo
  <2>1. /\ text # NoText /\ clock - text.made <= MaxAge
        /\ label' = [days |-> DayOf(clock + text.minutes * Minute) - DayOf(clock), at |-> text.at]
        /\ clock' = clock /\ resetAt' = resetAt /\ text' = text
    BY <1>4 DEF ParseResetTimeInfo
  <2>2. PICK m \in Nat \ {0} : m = Minute
    BY ResetLabelAssumption
  <2>3. PICK x \in Nat \ {0} : x = MaxAge
    BY ResetLabelAssumption
  <2>4. PICK c \in Nat : c = clock
    BY DEF LabelInv
  <2>5. PICK r \in Nat : r = resetAt
    BY DEF LabelInv
  <2>6. PICK a \in Nat : a = text.made
    BY <2>1 DEF LabelInv
  <2>7. a <= c /\ a < r /\ c - a <= x
    BY <2>1, <2>3, <2>4, <2>5, <2>6 DEF LabelInv
  <2>8. PICK y \in Nat : y = ((r - a) + m) - 1
    BY <2>7
  <2>9. PICK k \in Nat : \E z \in Nat : k = y \div m /\ z = y % m /\ z < m /\ y = m * k + z
    BY DivMod
  <2>10. text.minutes = k
    <3>1. text.minutes = (r - a + m - 1) \div m
      BY <2>1, <2>2, <2>5, <2>6 DEF LabelInv, MinutesLeft
    <3> QED
      BY <2>8, <2>9, <3>1
  <2>11. m * k \in Nat /\ k * m = m * k /\ m * k <= y /\ y < m * k + m
    BY <2>9
  <2>12. PICK T \in Nat : T = c + k * m
    BY <2>11
  <2>13. r <= T /\ T <= ((r + m) - 1) + x
    BY <2>7, <2>8, <2>11, <2>12
  <2>14. PICK e \in Nat : e = ((r + m) - 1) + x
    OBVIOUS
  <2>15. PICK w \in Nat : w = Minute * Day /\ x + m <= w
    <3>1. \A u \in Nat : \A v \in Nat : u * v \in Nat
      OBVIOUS
    <3> QED
      BY <2>2, <2>3, <3>1, ResetLabelAssumption
  <2>16. e < r + Minute * Day /\ r <= e /\ T <= e
    BY <2>2, <2>13, <2>14, <2>15
  <2>17. PICK d1 \in Nat : d1 = DayOf(r)
    BY DayIsNat
  <2>18. PICK d2 \in Nat : d2 = DayOf(e)
    BY DayIsNat
  <2>19. PICK d3 \in Nat : d3 = DayOf(T)
    BY DayIsNat
  <2>20. d1 <= d3 /\ d3 <= d2 /\ d2 <= d1 + 1
    BY <2>13, <2>16, <2>17, <2>18, <2>19, DaysInOrder
  <2>21. PICK d4 \in Nat : d4 = DayOf(c)
    BY DayIsNat
  <2>22. label'.days = d3 - d4 /\ label'.at = MinuteOfDay(r)
    BY <2>1, <2>2, <2>4, <2>5, <2>10, <2>12, <2>19, <2>21 DEF LabelInv
  <2>23. d4 + label'.days \in {d1, d2}
    BY <2>20, <2>22
  <2>24. DayOf(resetAt + Minute - 1 + MaxAge) = d2
    BY <2>2, <2>3, <2>5, <2>14, <2>18
  <2>25. DayIsRight'
    <3>1. label'.at = MinuteOfDay(resetAt)
      BY <2>5, <2>22
    <3>2. DayOf(clock) + label'.days \in {DayOf(resetAt), DayOf(resetAt + Minute - 1 + MaxAge)}
      BY <2>4, <2>5, <2>17, <2>21, <2>23, <2>24
    <3> QED
      BY <2>1, <3>1, <3>2 DEF DayIsRight, DayOf, MinuteOfDay
  <2> QED
    BY <2>1, <2>25 DEF LabelInv, MinuteOfDay, MinutesLeft
<1> QED
  BY <1>1, <1>2, <1>3, <1>4 DEF LabelNext

\* What is said of usage and of the reset agrees with the logs and the clock, for any
\* messages, files, block length, ages and bounds: each message counts once, in its
\* block, never below the reading, and the day of the reset is right (claudeBlockTokens,
\* claudeFallbackBlockTokens, extrapolateClaude5h, formatCountdown, parseResetTimeInfo).
THEOREM LogsAreAddedUp == Spec => []LogsAddUp
<1>1. Init => LogInv /\ LabelInv
  <2> SUFFICES ASSUME Init PROVE LogInv /\ LabelInv
    OBVIOUS
  <2>1. LogInit /\ LabelInit
    BY DEF Init, NoLabels
  <2>2. LogInv
    <3>1. usage \in Usages /\ \A m \in Messages : usage[m].ts = -1
      BY <2>1 DEF LogInit, Usages
    <3>2. log \in [LogFiles -> Seq(Lines)] /\ \A f \in LogFiles : FileOK(log[f], usage)
      BY <2>1, EmptyFile DEF LogInit
    <3>3. Logged(log, usage)
      BY <3>1, <3>2 DEF Logged
    <3>4. NeverBelowTheReading
      BY <2>1 DEF LogInit, NoShown, NeverBelowTheReading
    <3> QED
      BY <2>1, <3>1, <3>3, <3>4 DEF LogInit, LogInv, NoShown, NoTokens
  <2>3. LabelInv
    <3>1. clock \in Nat /\ resetAt \in Nat
      <4>1. \A m \in Nat : \A n \in Nat : \A x \in 0..(m * n - 1) : x \in Nat
        OBVIOUS
      <4> QED
        BY <2>1, <4>1, ResetLabelAssumption DEF LabelInit
    <3> QED
      BY <2>1, <3>1 DEF LabelInit, LabelInv, DayIsRight
  <2> QED
    BY <2>2, <2>3
<1>2. LogInv /\ LabelInv /\ [Next]_vars => LogInv' /\ LabelInv'
  <2> SUFFICES ASSUME LogInv, LabelInv, [Next]_vars PROVE LogInv' /\ LabelInv'
    OBVIOUS
  <2>1. (LogNext \/ UNCHANGED logVars) /\ (LabelNext \/ UNCHANGED labelVars)
    BY DEF Next, vars
  <2> QED
    BY <2>1, LogKeeps, LabelKeeps
<1>3. LogInv /\ LabelInv => LogsAddUp
  BY LogSays DEF LabelInv, LogsAddUp
<1> QED BY <1>1, <1>2, <1>3, SafeSpec, PTL

=============================================================================
