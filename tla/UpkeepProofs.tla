----------------------------- MODULE UpkeepProofs -----------------------------
(* The safety of the desktop app's start, of self-updates and of the history of a server,  *)
(* for any processes, rules, releases, windows and bounds, and the parts of the upkeep     *)
(* together.                                                                             *)
EXTENDS MCUpkeep, AccessProofs, FiniteSetTheorems, TLAPS

-----------------------------------------------------------------------------
(* The start of the desktop app.  Besides the types: who has gone past a file found   *)
(* one, and who has read it holds its content.                                       *)

Past == {"load", "seed", "serving"}
HasKey == {"seed", "serving"}

FilesFound ==
    \A a \in Launches :
      /\ launches[a].at \in {"fill key", "read jwt", "create jwt", "fill jwt"} \cup Past =>
           keyFile # NoFile
      /\ launches[a].at \in HasKey => launches[a].key # NoFile
      /\ launches[a].at \in {"fill jwt"} \cup Past => jwtFile # NoFile
      /\ launches[a].at \in Past => launches[a].jwt # NoFile

\* Without a race at most one launch makes the key, which nobody has read before, and
\* everybody has the same one.
KeyAgreed ==
    /\ \A a, b \in Launches :
         /\ launches[a].at \in {"create key", "fill key"}
         /\ launches[b].at \in {"create key", "fill key"}
         => a = b
    /\ \A a \in Launches :
         /\ launches[a].at = "create key" => keyFile = NoFile
         /\ launches[a].at = "fill key" => keyFile = Blank
         /\ launches[a].at \in HasKey => launches[a].key = keyFile
    /\ sealed \subseteq {keyFile}

\* The same for the secret of the sessions, which may also be blank for good.
JwtAgreed ==
    /\ \A a, b \in Launches :
         launches[a].at = "create jwt" /\ launches[b].at \in {"create jwt", "fill jwt"} => a = b
    /\ \A a, b \in Launches :
         launches[a].at = "fill jwt" /\ launches[b].at \in {"create jwt", "fill jwt"} \cup Past
           => a = b
    /\ \A a \in Launches :
         /\ launches[a].at = "create jwt" => jwtFile = NoFile
         /\ launches[a].at = "fill jwt" => jwtFile = Blank
         /\ launches[a].at \in Past => launches[a].jwt = jwtFile
    /\ signed \subseteq {jwtFile}

StartupInv ==
    /\ StartupTypeOK
    /\ FilesFound
    /\ ~raced => KeyAgreed /\ JwtAgreed
    /\ \A m \in edited : rules[m] = "edited"


-----------------------------------------------------------------------------
(* What the step of one launch leaves alone *)

\* Launch a becomes p.
Moves(a, p) ==
    /\ p \in Process \cup {Off, Broken}
    /\ launches' = [launches EXCEPT ![a] = p]

LEMMA MovesAlone ==
    ASSUME StartupInv, NEW a \in Launches, NEW p, Moves(a, p)
    PROVE  /\ launches'[a] = p
           /\ \A b \in Launches \ {a} : launches'[b] = launches[b]
           /\ launches' \in [Launches -> Process \cup {Off, Broken}]
BY DEF Moves, StartupInv, StartupTypeOK

LEMMA FoundKept ==
    ASSUME StartupInv, NEW a \in Launches, NEW p, Moves(a, p),
           keyFile # NoFile => keyFile' # NoFile,
           jwtFile # NoFile => jwtFile' # NoFile,
           p.at \in {"fill key", "read jwt", "create jwt", "fill jwt"} \cup Past
             => keyFile' # NoFile,
           p.at \in HasKey => p.key # NoFile,
           p.at \in {"fill jwt"} \cup Past => jwtFile' # NoFile,
           p.at \in Past => p.jwt # NoFile
    PROVE  FilesFound'
<1>1. /\ launches'[a] = p
      /\ \A b \in Launches \ {a} : launches'[b] = launches[b]
  BY MovesAlone
<1>2. FilesFound
  BY DEF StartupInv
<1>3. ASSUME NEW b \in Launches \ {a}
      PROVE  /\ launches'[b].at \in {"fill key", "read jwt", "create jwt", "fill jwt"} \cup Past =>
                  keyFile' # NoFile
             /\ launches'[b].at \in HasKey => launches'[b].key # NoFile
             /\ launches'[b].at \in {"fill jwt"} \cup Past => jwtFile' # NoFile
             /\ launches'[b].at \in Past => launches'[b].jwt # NoFile
  BY <1>1, <1>2 DEF FilesFound
<1>4. QED
  BY <1>1, <1>3 DEF FilesFound

LEMMA KeyKept ==
    ASSUME StartupInv, NEW a \in Launches, NEW p, Moves(a, p),
           raced => raced', keyFile' = keyFile, sealed' = sealed,
           p.at \notin {"create key", "fill key"},
           p.at \in HasKey =>
             p.key = keyFile \/ (launches[a].at \in HasKey /\ p.key = launches[a].key)
    PROVE  ~raced' => KeyAgreed'
<1> SUFFICES ASSUME ~raced' PROVE KeyAgreed'
  OBVIOUS
<1>1. KeyAgreed
  BY DEF StartupInv
<1>2. /\ launches'[a] = p
      /\ \A b \in Launches \ {a} : launches'[b] = launches[b]
  BY MovesAlone
<1>3. \A b \in Launches : launches'[b].at \in {"create key", "fill key"} =>
        launches[b].at \in {"create key", "fill key"} /\ launches'[b].at = launches[b].at
  BY <1>2
<1>4. \A b \in Launches : launches'[b].at \in HasKey => launches'[b].key = keyFile
  BY <1>1, <1>2 DEF KeyAgreed
<1>5. QED
  BY <1>1, <1>3, <1>4 DEF KeyAgreed

LEMMA JwtKept ==
    ASSUME StartupInv, NEW a \in Launches, NEW p, Moves(a, p),
           raced => raced', jwtFile' = jwtFile, signed' = signed,
           p.at \notin {"create jwt", "fill jwt"},
           p.at \in Past => launches[a].at \in Past /\ p.jwt = launches[a].jwt
    PROVE  ~raced' => JwtAgreed'
<1> SUFFICES ASSUME ~raced' PROVE JwtAgreed'
  OBVIOUS
<1>1. JwtAgreed
  BY DEF StartupInv
<1>2. /\ launches'[a] = p
      /\ \A b \in Launches \ {a} : launches'[b] = launches[b]
  BY MovesAlone
<1>3. \A b \in Launches :
        /\ launches'[b].at \in {"create jwt", "fill jwt"} => launches[b].at = launches'[b].at
        /\ launches'[b].at \in Past => launches[b].at \in Past
  BY <1>2
<1>4. \A b \in Launches : launches'[b].at \in Past => launches'[b].jwt = jwtFile
  BY <1>1, <1>2 DEF JwtAgreed
<1>5. QED
  BY <1>1, <1>3, <1>4 DEF JwtAgreed

\* The marks are not contents, and a launch that has ended is none under way.
LEMMA FileMarks == NoFile \notin Nat /\ Blank \in Nat /\ {NoFile, Blank} \subseteq Files
BY DEF NoFile, Blank, Files

LEMMA MarksEnd == /\ Off.at = "off" /\ Broken.at = "broken"
                  /\ \A process \in Process : process.at \in BuildStep
BY DEF Off, Broken, Process

-----------------------------------------------------------------------------
(* The steps of a launch *)

LEMMA StartupInitInv == StartupInit => StartupInv
<1> SUFFICES ASSUME StartupInit PROVE StartupInv
  OBVIOUS
<1>1. StartupTypeOK
  <2>1. launches \in [Launches -> Process \cup {Off, Broken}]
    BY DEF StartupInit
  <2>2. rules \in [Metrics -> {"absent", "default", "edited"}]
    BY DEF StartupInit
  <2>3. starts \in 0..MaxStarts /\ cuts \in 0..MaxCuts /\ drawn \in Nat
    BY StartupAssumption DEF StartupInit
  <2>4. QED
    BY <2>1, <2>2, <2>3 DEF StartupInit, StartupTypeOK, Files
<1>2. FilesFound /\ KeyAgreed /\ JwtAgreed
  BY MarksEnd DEF StartupInit, FilesFound, KeyAgreed, JwtAgreed, Past, HasKey
<1>3. QED
  BY <1>1, <1>2 DEF StartupInit, StartupInv

LEMMA BuildBackendInv ==
    ASSUME StartupInv, NEW a \in Launches, BuildBackend(a)
    PROVE  StartupInv'
<1>1. PICK p : p = [at |-> "ensure", key |-> NoFile, jwt |-> NoFile, seeds |-> Metrics,
                    missing |-> {}]
  OBVIOUS
<1>2. Moves(a, p)
  BY <1>1 DEF Moves, BuildBackend, Process, BuildStep, Files, NoFile, Blank
<1>3. starts' \in 0..MaxStarts
  BY StartupAssumption DEF BuildBackend, StartupInv, StartupTypeOK
<1>4. StartupTypeOK'
  BY <1>2, <1>3, MovesAlone DEF BuildBackend, data, StartupInv, StartupTypeOK
<1>5. p.at = "ensure"
  BY <1>1
<1>6. FilesFound'
  BY <1>2, <1>5, FoundKept DEF BuildBackend, Past, HasKey
<1>7. ~raced' => KeyAgreed'
  BY <1>2, <1>5, KeyKept DEF BuildBackend, data, HasKey
<1>8. ~raced' => JwtAgreed'
  BY <1>2, <1>5, JwtKept DEF BuildBackend, data, Past
<1>9. QED
  BY <1>4, <1>6, <1>7, <1>8 DEF StartupInv, BuildBackend, data

LEMMA EnsureInv ==
    ASSUME StartupInv, NEW a \in Launches, EnsureRandomFile(a)
    PROVE  StartupInv'
<1>1. PICK p : p = [launches[a] EXCEPT !.at = IF keyFile = NoFile THEN "create key" ELSE "read jwt"]
  OBVIOUS
<1>2. launches[a] \in Process
  BY MarksEnd DEF StartupInv, StartupTypeOK, EnsureRandomFile, Busy
<1>3. p \in Process /\ p.at = IF keyFile = NoFile THEN "create key" ELSE "read jwt"
  BY <1>1, <1>2 DEF Process, BuildStep
<1>4. Moves(a, p)
  BY <1>1, <1>3 DEF Moves, EnsureRandomFile, Goes
<1>5. StartupTypeOK'
  BY <1>4, MovesAlone DEF EnsureRandomFile, data, StartupInv, StartupTypeOK, OthersAt
<1>6. FilesFound'
  BY <1>3, <1>4, FoundKept DEF EnsureRandomFile, Past, HasKey
<1>7. ~raced' => KeyAgreed'
  <2>1. CASE keyFile = NoFile
    <3> SUFFICES ASSUME ~raced' PROVE KeyAgreed'
      OBVIOUS
    <3>1. KeyAgreed /\ \A b \in Launches \ {a} : launches[b].at # "create key"
      BY <2>1 DEF EnsureRandomFile, OthersAt, StartupInv
    <3>2. \A b \in Launches \ {a} : launches[b].at # "fill key"
      BY <2>1, <3>1, FileMarks DEF KeyAgreed
    <3>3. /\ launches'[a].at = "create key"
          /\ \A b \in Launches \ {a} : launches'[b] = launches[b]
      BY <2>1, <1>3, <1>4, MovesAlone
    <3>4. keyFile' = NoFile /\ sealed' \subseteq {keyFile'}
      BY <2>1, <3>1 DEF EnsureRandomFile, data, KeyAgreed
    <3>5. \A b \in Launches : launches'[b].at \in {"create key", "fill key"} => b = a
      BY <3>1, <3>2, <3>3
    <3>6. ASSUME NEW b \in Launches
          PROVE  /\ launches'[b].at = "create key" => keyFile' = NoFile
                 /\ launches'[b].at = "fill key" => keyFile' = Blank
                 /\ launches'[b].at \in HasKey => launches'[b].key = keyFile'
      BY <2>1, <3>1, <3>2, <3>3, <3>4 DEF KeyAgreed, HasKey
    <3>7. QED
      BY <3>4, <3>5, <3>6 DEF KeyAgreed
  <2>2. CASE keyFile # NoFile
    BY <2>2, <1>3, <1>4, KeyKept DEF EnsureRandomFile, data, HasKey
  <2>3. QED
    BY <2>1, <2>2
<1>8. ~raced' => JwtAgreed'
  BY <1>3, <1>4, JwtKept DEF EnsureRandomFile, data, Past
<1>9. QED
  BY <1>5, <1>6, <1>7, <1>8 DEF StartupInv, EnsureRandomFile, data

LEMMA CreateKeyInv ==
    ASSUME StartupInv, NEW a \in Launches, CreateKey(a)
    PROVE  StartupInv'
<1>1. PICK p : p = [launches[a] EXCEPT !.at = "fill key"]
  OBVIOUS
<1>2. launches[a] \in Process
  BY MarksEnd DEF StartupInv, StartupTypeOK, CreateKey, Busy
<1>3. p \in Process /\ p.at = "fill key"
  BY <1>1, <1>2 DEF Process, BuildStep
<1>4. Moves(a, p)
  BY <1>1, <1>3 DEF Moves, CreateKey, Goes
<1>5. StartupTypeOK'
  BY <1>4, MovesAlone, FileMarks DEF CreateKey, data, StartupInv, StartupTypeOK
<1>6. FilesFound'
  BY <1>3, <1>4, FoundKept, FileMarks DEF CreateKey, Past, HasKey
<1>7. ~raced' => KeyAgreed'
  <2> SUFFICES ASSUME ~raced PROVE KeyAgreed'
    BY DEF CreateKey
  <2>1. sealed = {}
    BY FileMarks DEF StartupInv, StartupTypeOK, KeyAgreed, CreateKey, Busy
  <2>2. \A b \in Launches : launches[b].at \notin HasKey
    BY DEF StartupInv, FilesFound, KeyAgreed, CreateKey, Busy, Past, HasKey
  <2>3. \A b \in Launches \ {a} : launches[b].at \notin {"create key", "fill key"}
    BY DEF StartupInv, KeyAgreed, CreateKey, Busy
  <2>4. /\ launches'[a].at = "fill key"
        /\ \A b \in Launches \ {a} : launches'[b] = launches[b]
    BY <1>3, <1>4, MovesAlone
  <2>5. keyFile' = Blank /\ sealed' = {}
    BY <2>1 DEF CreateKey, data
  <2>6. QED
    BY <2>2, <2>3, <2>4, <2>5 DEF KeyAgreed, HasKey
<1>8. ~raced' => JwtAgreed'
  BY <1>3, <1>4, JwtKept DEF CreateKey, data, Past
<1>9. QED
  BY <1>5, <1>6, <1>7, <1>8 DEF StartupInv, CreateKey, data

\* The write of either file fails.
LEMMA WriteFails ==
    ASSUME StartupInv, NEW a \in Launches, CutOff,
           launches' = [launches EXCEPT ![a] = Broken],
           UNCHANGED <<keyFile, jwtFile, rules, drawn, data, raced, starts>>
    PROVE  StartupInv'
<1>1. PICK p : p = Broken
  OBVIOUS
<1>2. Moves(a, p) /\ p.at = "broken"
  BY <1>1, MarksEnd DEF Moves
<1>3. cuts' \in 0..MaxCuts
  BY StartupAssumption DEF CutOff, StartupInv, StartupTypeOK
<1>4. StartupTypeOK'
  BY <1>2, <1>3, MovesAlone DEF data, StartupInv, StartupTypeOK
<1>5. FilesFound'
  BY <1>2, FoundKept DEF Past, HasKey
<1>6. ~raced' => KeyAgreed'
  BY <1>2, KeyKept DEF data, HasKey
<1>7. ~raced' => JwtAgreed'
  BY <1>2, JwtKept DEF data, Past
<1>8. QED
  BY <1>4, <1>5, <1>6, <1>7 DEF StartupInv, data

LEMMA FillKeyInv ==
    ASSUME StartupInv, NEW a \in Launches, FillKey(a)
    PROVE  StartupInv'
<1>1. CASE launches' = [launches EXCEPT ![a] = Broken] /\ CutOff /\ UNCHANGED <<keyFile, drawn>>
  BY <1>1, WriteFails DEF FillKey
<1>2. CASE drawn' = drawn + 1 /\ keyFile' = drawn' /\ Goes(a, "read jwt") /\ UNCHANGED cuts
  <2>1. PICK p : p = [launches[a] EXCEPT !.at = "read jwt"]
    OBVIOUS
  <2>2. launches[a] \in Process
    BY MarksEnd DEF StartupInv, StartupTypeOK, FillKey, Busy
  <2>3. p \in Process /\ p.at = "read jwt"
    BY <2>1, <2>2 DEF Process, BuildStep
  <2>4. Moves(a, p)
    BY <1>2, <2>1, <2>3 DEF Moves, Goes
  <2>5. keyFile' \in Files /\ keyFile' # NoFile /\ drawn' \in Nat
    <3>1. drawn \in Nat
      BY DEF StartupInv, StartupTypeOK
    <3>2. drawn' = drawn + 1 /\ keyFile' = drawn'
      BY <1>2
    <3>3. QED
      BY <3>1, <3>2, FileMarks DEF Files
  <2>6. StartupTypeOK'
    BY <1>2, <2>4, <2>5, MovesAlone DEF FillKey, data, StartupInv, StartupTypeOK
  <2>7. FilesFound'
    BY <2>3, <2>4, <2>5, FoundKept DEF FillKey, Past, HasKey
  <2>8. ~raced' => KeyAgreed'
    <3> SUFFICES ASSUME ~raced PROVE KeyAgreed'
      BY DEF FillKey
    <3>1. sealed = {}
      BY DEF StartupInv, StartupTypeOK, KeyAgreed, FillKey, Busy
    <3>2. \A b \in Launches : launches[b].at \in HasKey => launches[b].key = Blank
      BY DEF StartupInv, KeyAgreed, FillKey, Busy
    <3>3. \A b \in Launches : launches[b].at \in HasKey => launches[b].key # Blank
      BY MarksEnd DEF StartupInv, StartupTypeOK, Process, HasKey
    <3>4. \A b \in Launches \ {a} : launches[b].at \notin {"create key", "fill key"}
      BY DEF StartupInv, KeyAgreed, FillKey, Busy
    <3>5. /\ launches'[a].at = "read jwt"
          /\ \A b \in Launches \ {a} : launches'[b] = launches[b]
      BY <2>3, <2>4, MovesAlone
    <3>6. \A b \in Launches :
            launches'[b].at \notin {"create key", "fill key"} \cup HasKey
      BY <3>2, <3>3, <3>4, <3>5 DEF HasKey
    <3>7. sealed' = {}
      BY <3>1 DEF FillKey, data
    <3>8. QED
      BY <3>6, <3>7 DEF KeyAgreed
  <2>9. ~raced' => JwtAgreed'
    BY <2>3, <2>4, JwtKept DEF FillKey, data, Past
  <2>10. QED
    BY <2>6, <2>7, <2>8, <2>9 DEF StartupInv, FillKey, data
<1>3. QED
  BY <1>1, <1>2 DEF FillKey

LEMMA ReadJwtInv ==
    ASSUME StartupInv, NEW a \in Launches, ReadJwt(a)
    PROVE  StartupInv'
<1>1. PICK p : p = IF jwtFile = NoFile THEN [launches[a] EXCEPT !.at = "create jwt"]
                   ELSE [launches[a] EXCEPT !.at = "load", !.jwt = jwtFile]
  OBVIOUS
<1>2. launches[a] \in Process
  BY MarksEnd DEF StartupInv, StartupTypeOK, ReadJwt, Busy
<1>3. /\ p \in Process
      /\ jwtFile = NoFile => p.at = "create jwt"
      /\ jwtFile # NoFile => p.at = "load" /\ p.jwt = jwtFile
  BY <1>1, <1>2 DEF StartupInv, StartupTypeOK, Process, BuildStep
<1>4. Moves(a, p)
  BY <1>1, <1>3 DEF Moves, ReadJwt
<1>5. StartupTypeOK'
  BY <1>4, MovesAlone DEF ReadJwt, data, StartupInv, StartupTypeOK, OthersAt
<1>6. keyFile # NoFile
  BY DEF StartupInv, FilesFound, ReadJwt, Busy
<1>7. FilesFound'
  BY <1>3, <1>4, <1>6, FoundKept DEF ReadJwt, Past, HasKey
<1>8. ~raced' => KeyAgreed'
  BY <1>3, <1>4, KeyKept DEF ReadJwt, data, HasKey
<1>9. ~raced' => JwtAgreed'
  <2> SUFFICES ASSUME ~raced' PROVE JwtAgreed'
    OBVIOUS
  <2>1. /\ JwtAgreed
        /\ \A b \in Launches \ {a} : launches[b].at \notin {"create jwt", "fill jwt"}
    BY DEF ReadJwt, OthersAt, StartupInv
  <2>2. /\ launches'[a] = p
        /\ \A b \in Launches \ {a} : launches'[b] = launches[b]
    BY <1>4, MovesAlone
  <2>3. jwtFile' = jwtFile /\ signed' = signed
    BY DEF ReadJwt, data
  <2>4. QED
    BY <1>3, <2>1, <2>2, <2>3 DEF JwtAgreed, Past
<1>10. QED
  BY <1>5, <1>7, <1>8, <1>9 DEF StartupInv, ReadJwt, data

LEMMA CreateJwtInv ==
    ASSUME StartupInv, NEW a \in Launches, CreateJwt(a)
    PROVE  StartupInv'
<1>1. PICK p : p = [launches[a] EXCEPT !.at = "fill jwt"]
  OBVIOUS
<1>2. launches[a] \in Process
  BY MarksEnd DEF StartupInv, StartupTypeOK, CreateJwt, Busy
<1>3. p \in Process /\ p.at = "fill jwt"
  BY <1>1, <1>2 DEF Process, BuildStep
<1>4. Moves(a, p)
  BY <1>1, <1>3 DEF Moves, CreateJwt, Goes
<1>5. StartupTypeOK'
  BY <1>4, MovesAlone, FileMarks DEF CreateJwt, data, StartupInv, StartupTypeOK
<1>6. keyFile # NoFile
  BY DEF StartupInv, FilesFound, CreateJwt, Busy
<1>7. FilesFound'
  BY <1>3, <1>4, <1>6, FoundKept, FileMarks DEF CreateJwt, Past, HasKey
<1>8. ~raced' => KeyAgreed'
  BY <1>3, <1>4, KeyKept DEF CreateJwt, data, HasKey
<1>9. ~raced' => JwtAgreed'
  <2> SUFFICES ASSUME ~raced PROVE JwtAgreed'
    BY DEF CreateJwt
  <2>1. JwtAgreed /\ jwtFile = NoFile
    BY DEF StartupInv, JwtAgreed, CreateJwt, Busy
  <2>2. signed = {}
    BY <2>1, FileMarks DEF StartupInv, StartupTypeOK, JwtAgreed
  <2>3. \A b \in Launches : launches[b].at \notin Past
    BY <2>1 DEF StartupInv, FilesFound
  <2>4. \A b \in Launches \ {a} : launches[b].at \notin {"create jwt", "fill jwt"}
    BY <2>1 DEF JwtAgreed, CreateJwt, Busy
  <2>5. /\ launches'[a].at = "fill jwt"
        /\ \A b \in Launches \ {a} : launches'[b] = launches[b]
    BY <1>3, <1>4, MovesAlone
  <2>6. jwtFile' = Blank /\ signed' = {}
    BY <2>2 DEF CreateJwt, data
  <2>7. QED
    BY <2>3, <2>4, <2>5, <2>6 DEF JwtAgreed, Past
<1>10. QED
  BY <1>5, <1>7, <1>8, <1>9 DEF StartupInv, CreateJwt, data

LEMMA FillJwtInv ==
    ASSUME StartupInv, NEW a \in Launches, FillJwt(a)
    PROVE  StartupInv'
<1>1. CASE launches' = [launches EXCEPT ![a] = Broken] /\ CutOff /\ UNCHANGED <<jwtFile, drawn>>
  BY <1>1, WriteFails DEF FillJwt
<1>2. CASE /\ drawn' = drawn + 1 /\ jwtFile' = drawn' /\ UNCHANGED cuts
           /\ launches' = [launches EXCEPT ![a] = [@ EXCEPT !.at = "load", !.jwt = drawn']]
  <2>1. PICK p : p = [launches[a] EXCEPT !.at = "load", !.jwt = drawn']
    OBVIOUS
  <2>2. launches[a] \in Process
    BY MarksEnd DEF StartupInv, StartupTypeOK, FillJwt, Busy
  <2>3. drawn' \in Nat
    BY <1>2 DEF StartupInv, StartupTypeOK
  <2>4. p \in Process /\ p.at = "load" /\ p.jwt = jwtFile'
    BY <1>2, <2>1, <2>2, <2>3 DEF Process, BuildStep, Files
  <2>5. Moves(a, p)
    BY <1>2, <2>1, <2>4 DEF Moves
  <2>6. jwtFile' \in Files /\ jwtFile' # NoFile
    BY <1>2, <2>3, FileMarks DEF Files
  <2>7. StartupTypeOK'
    BY <1>2, <2>3, <2>5, <2>6, MovesAlone DEF FillJwt, data, StartupInv, StartupTypeOK
  <2>8. keyFile # NoFile
    BY DEF StartupInv, FilesFound, FillJwt, Busy
  <2>9. FilesFound'
    BY <2>4, <2>5, <2>6, <2>8, FoundKept DEF FillJwt, Past, HasKey
  <2>10. ~raced' => KeyAgreed'
    BY <2>4, <2>5, KeyKept DEF FillJwt, data, HasKey
  <2>11. ~raced' => JwtAgreed'
    <3> SUFFICES ASSUME ~raced PROVE JwtAgreed'
      BY DEF FillJwt
    <3>1. JwtAgreed /\ jwtFile = Blank
      BY DEF StartupInv, JwtAgreed, FillJwt, Busy
    <3>2. signed = {}
      BY <3>1 DEF StartupInv, StartupTypeOK, JwtAgreed
    <3>3. \A b \in Launches \ {a} : launches[b].at \notin {"create jwt", "fill jwt"} \cup Past
      BY <3>1 DEF JwtAgreed, FillJwt, Busy
    <3>4. /\ launches'[a] = p
          /\ \A b \in Launches \ {a} : launches'[b] = launches[b]
      BY <2>5, MovesAlone
    <3>5. signed' = {}
      BY <3>2 DEF FillJwt, data
    <3>6. QED
      BY <2>4, <3>3, <3>4, <3>5 DEF JwtAgreed, Past
  <2>12. QED
    BY <2>7, <2>9, <2>10, <2>11 DEF StartupInv, FillJwt, data
<1>3. QED
  BY <1>1, <1>2 DEF FillJwt

LEMMA LoadKeyInv ==
    ASSUME StartupInv, NEW a \in Launches, LoadKey(a)
    PROVE  StartupInv'
<1>1. PICK p : p = IF keyFile = Blank THEN Broken
                   ELSE [launches[a] EXCEPT !.at = "seed", !.key = keyFile]
  OBVIOUS
<1>2. launches[a] \in Process /\ launches[a].at = "load"
  BY MarksEnd DEF StartupInv, StartupTypeOK, LoadKey, Busy
<1>3. keyFile = Blank => p = Broken /\ p.at = "broken"
  BY <1>1, MarksEnd
<1>4. keyFile # Blank => /\ p \in Process /\ p.at = "seed"
                         /\ p.key = keyFile /\ p.jwt = launches[a].jwt
  BY <1>1, <1>2 DEF StartupInv, StartupTypeOK, Process, BuildStep
<1>5. Moves(a, p)
  BY <1>1, <1>3, <1>4 DEF Moves, LoadKey
<1>6. StartupTypeOK'
  BY <1>5, MovesAlone DEF LoadKey, data, StartupInv, StartupTypeOK
<1>7. keyFile # NoFile /\ jwtFile # NoFile /\ launches[a].jwt # NoFile
  BY <1>2 DEF StartupInv, FilesFound, Past
<1>8. FilesFound'
  BY <1>3, <1>4, <1>5, <1>7, FoundKept DEF LoadKey, Past, HasKey
<1>9. ~raced' => KeyAgreed'
  BY <1>3, <1>4, <1>5, KeyKept DEF LoadKey, data, HasKey
<1>10. ~raced' => JwtAgreed'
  BY <1>2, <1>3, <1>4, <1>5, JwtKept DEF LoadKey, data, Past
<1>11. QED
  BY <1>6, <1>8, <1>9, <1>10 DEF StartupInv, LoadKey, data

\* A launch that seeds rules, or ends, and touches no file.
LEMMA FilesRest ==
    ASSUME StartupInv, NEW a \in Launches, NEW p, Moves(a, p),
           UNCHANGED <<keyFile, jwtFile, drawn, data, raced>>,
           rules' \in [Metrics -> {"absent", "default", "edited"}],
           starts' \in 0..MaxStarts, cuts' \in 0..MaxCuts,
           p.at \in HasKey => /\ launches[a].at \in HasKey
                              /\ p.key = launches[a].key /\ p.jwt = launches[a].jwt,
           p.at \in HasKey \cup {"off"},
           \A m \in edited : rules'[m] = "edited"
    PROVE  StartupInv'
<1>1. StartupTypeOK'
  BY MovesAlone DEF data, StartupInv, StartupTypeOK
<1>2. FilesFound'
  <2>1. p.at \in HasKey => /\ keyFile # NoFile /\ jwtFile # NoFile
                           /\ p.key # NoFile /\ p.jwt # NoFile
    BY DEF StartupInv, FilesFound, Past, HasKey
  <2>2. QED
    BY <2>1, FoundKept DEF Past, HasKey
<1>3. ~raced' => KeyAgreed'
  BY KeyKept DEF data, HasKey
<1>4. ~raced' => JwtAgreed'
  BY JwtKept DEF data, Past, HasKey
<1>5. QED
  BY <1>1, <1>2, <1>3, <1>4 DEF StartupInv, data

LEMMA CountRulesInv ==
    ASSUME StartupInv, NEW a \in Launches, NEW m \in Metrics, CountRules(a, m)
    PROVE  StartupInv'
<1>1. PICK p : p = [launches[a] EXCEPT !.seeds = launches[a].seeds \ {m},
                      !.missing = IF rules[m] = "absent" THEN {m} ELSE {}]
  OBVIOUS
<1>2. launches[a] \in Process /\ launches[a].at = "seed"
  BY MarksEnd DEF StartupInv, StartupTypeOK, CountRules, Busy
<1>3. /\ p \in Process /\ p.at = "seed"
      /\ p.key = launches[a].key /\ p.jwt = launches[a].jwt
  BY <1>1, <1>2 DEF Process
<1>4. Moves(a, p)
  BY <1>1, <1>3 DEF Moves, CountRules
<1>5. QED
  BY <1>2, <1>3, <1>4, FilesRest
     DEF CountRules, data, HasKey, StartupInv, StartupTypeOK

LEMMA CreateRuleInv ==
    ASSUME StartupInv, NEW a \in Launches, NEW m \in Metrics, CreateRule(a, m)
    PROVE  StartupInv'
<1>1. PICK p : p = IF rules[m] = "absent" THEN [launches[a] EXCEPT !.missing = {}]
                   ELSE [launches[a] EXCEPT !.missing = {}, !.seeds = {}]
  OBVIOUS
<1>2. launches[a] \in Process /\ launches[a].at = "seed"
  BY MarksEnd DEF StartupInv, StartupTypeOK, CreateRule, Busy
<1>3. /\ p \in Process /\ p.at = "seed"
      /\ p.key = launches[a].key /\ p.jwt = launches[a].jwt
  BY <1>1, <1>2 DEF Process
<1>4. Moves(a, p)
  BY <1>1, <1>3 DEF Moves, CreateRule
<1>5. /\ rules' \in [Metrics -> {"absent", "default", "edited"}]
      /\ \A n \in edited : rules'[n] = "edited"
  BY DEF CreateRule, StartupInv, StartupTypeOK
<1>6. QED
  BY <1>2, <1>3, <1>4, <1>5, FilesRest
     DEF CreateRule, data, HasKey, StartupInv, StartupTypeOK

LEMMA ReadyInv ==
    ASSUME StartupInv, NEW a \in Launches, Ready(a)
    PROVE  StartupInv'
<1>1. PICK p : p = [launches[a] EXCEPT !.at = "serving"]
  OBVIOUS
<1>2. launches[a] \in Process /\ launches[a].at = "seed"
  BY MarksEnd DEF StartupInv, StartupTypeOK, Ready, Busy
<1>3. /\ p \in Process /\ p.at = "serving"
      /\ p.key = launches[a].key /\ p.jwt = launches[a].jwt
  BY <1>1, <1>2 DEF Process, BuildStep
<1>4. Moves(a, p)
  BY <1>1, <1>3 DEF Moves, Ready, Goes
<1>5. QED
  BY <1>2, <1>3, <1>4, FilesRest DEF Ready, data, HasKey, StartupInv, StartupTypeOK

LEMMA ExitInv ==
    ASSUME StartupInv, NEW a \in Launches, Exit(a)
    PROVE  StartupInv'
<1>1. PICK p : p = Off
  OBVIOUS
<1>2. Moves(a, p) /\ p.at = "off"
  BY <1>1, MarksEnd DEF Moves, Exit
<1>3. cuts' \in 0..MaxCuts
  BY StartupAssumption DEF Exit, CutOff, StartupInv, StartupTypeOK
<1>4. QED
  BY <1>2, <1>3, FilesRest DEF Exit, data, HasKey, StartupInv, StartupTypeOK

LEMMA SealSecretInv ==
    ASSUME StartupInv, NEW a \in Launches, SealSecret(a)
    PROVE  StartupInv'
<1>1. launches[a] \in Process /\ launches[a].at = "serving"
  BY MarksEnd DEF StartupInv, StartupTypeOK, SealSecret, Busy
<1>2. launches[a].key \in Nat \ {Blank}
  BY <1>1 DEF StartupInv, FilesFound, HasKey, Process, Files
<1>3. StartupTypeOK'
  BY <1>2 DEF SealSecret, StartupInv, StartupTypeOK
<1>4. FilesFound' /\ (~raced' => JwtAgreed')
  BY DEF SealSecret, StartupInv, FilesFound, JwtAgreed
<1>5. ~raced => launches[a].key = keyFile
  BY <1>1 DEF StartupInv, KeyAgreed, HasKey
<1>6. ~raced' => KeyAgreed'
  BY <1>5 DEF SealSecret, StartupInv, KeyAgreed
<1>7. QED
  BY <1>3, <1>4, <1>6 DEF SealSecret, StartupInv

LEMMA SignInInv ==
    ASSUME StartupInv, NEW a \in Launches, SignIn(a)
    PROVE  StartupInv'
<1>1. launches[a] \in Process /\ launches[a].at = "serving"
  BY MarksEnd DEF StartupInv, StartupTypeOK, SignIn, Busy
<1>2. launches[a].jwt \in Nat \ {Blank}
  BY <1>1 DEF StartupInv, FilesFound, Past, Process, Files, SignIn
<1>3. StartupTypeOK'
  BY <1>2 DEF SignIn, StartupInv, StartupTypeOK
<1>4. FilesFound' /\ (~raced' => KeyAgreed')
  BY DEF SignIn, StartupInv, FilesFound, KeyAgreed
<1>5. ~raced => launches[a].jwt = jwtFile
  BY <1>1 DEF StartupInv, JwtAgreed, Past
<1>6. ~raced' => JwtAgreed'
  BY <1>5 DEF SignIn, StartupInv, JwtAgreed
<1>7. QED
  BY <1>3, <1>4, <1>6 DEF SignIn, StartupInv

LEMMA UpdateRuleInv ==
    ASSUME StartupInv, NEW a \in Launches, NEW m \in Metrics, UpdateRule(a, m)
    PROVE  StartupInv'
<1>1. StartupTypeOK'
  BY DEF UpdateRule, StartupInv, StartupTypeOK
<1>2. FilesFound' /\ (~raced' => KeyAgreed' /\ JwtAgreed')
  BY DEF UpdateRule, StartupInv, FilesFound, KeyAgreed, JwtAgreed
<1>3. \A n \in edited' : rules'[n] = "edited"
  BY DEF UpdateRule, StartupInv, StartupTypeOK
<1>4. QED
  BY <1>1, <1>2, <1>3 DEF StartupInv

-----------------------------------------------------------------------------
(* Theorems about the start *)

THEOREM StartupInvariant == StartupSpec => []StartupInv
<1>1. StartupInv /\ [StartupNext]_startupVars => StartupInv'
  <2> SUFFICES ASSUME StartupInv, [StartupNext]_startupVars PROVE StartupInv'
    OBVIOUS
  <2>1. CASE UNCHANGED startupVars
    BY <2>1 DEF startupVars, StartupInv, StartupTypeOK, FilesFound, KeyAgreed, JwtAgreed
  <2>2. CASE StartupNext
    <3>1. PICK a \in Launches :
            \/ BuildBackend(a) \/ EnsureRandomFile(a) \/ CreateKey(a) \/ FillKey(a)
            \/ ReadJwt(a) \/ CreateJwt(a) \/ FillJwt(a) \/ LoadKey(a) \/ Ready(a)
            \/ SealSecret(a) \/ SignIn(a) \/ Exit(a)
            \/ \E m \in Metrics : CountRules(a, m) \/ CreateRule(a, m) \/ UpdateRule(a, m)
      BY <2>2 DEF StartupNext
    <3>2. QED
      BY <3>1, BuildBackendInv, EnsureInv, CreateKeyInv, FillKeyInv, ReadJwtInv, CreateJwtInv,
         FillJwtInv, LoadKeyInv, ReadyInv, SealSecretInv, SignInInv, ExitInv, CountRulesInv,
         CreateRuleInv, UpdateRuleInv
  <2>3. QED
    BY <2>1, <2>2
<1>2. QED
  BY StartupInitInv, <1>1, PTL DEF StartupSpec

\* Files, rules and processes keep their types, however launches are cut off.
THEOREM StartupTypeCorrect == StartupSpec => []StartupTypeOK
<1>1. StartupInv => StartupTypeOK
  BY DEF StartupInv
<1>2. QED
  BY StartupInvariant, <1>1, PTL

\* A backend that serves opens what any start before it sealed, honours the sessions it
\* signed and keeps the rules an operator changed.
THEOREM DataOutlivesStartsHolds == StartupSpec => []DataOutlivesStarts
<1>1. StartupInv => DataOutlivesStarts
  BY DEF StartupInv, DataOutlivesStarts, KeyAgreed, JwtAgreed, Busy, Past, HasKey
<1>2. QED
  BY StartupInvariant, <1>1, PTL

-----------------------------------------------------------------------------
(* Self-updates.  Besides the types: a stream that still has a name has its file, an   *)
(* update is of a release that was published, and the steps of the swap on Windows are  *)
(* taken there.                                                                      *)

Targeted == {"sums", "open", "copy", "verify", "unlink", "aside", "install"}

Steady(a) ==
    /\ apps[a].at = "copy" /\ apps[a].file = "staged" => staged[apps[a].tag] # Missing
    /\ apps[a].at = "copy" /\ apps[a].file = "exe" => exe # Missing /\ ~onWindows
    /\ apps[a].at \in Targeted => apps[a].tag <= released
    /\ apps[a].at \in {"unlink", "aside", "rollback"} => onWindows

\* An update alone: it streams into its own file, swaps only a file that is whole, and
\* aims past whatever was installed; on Windows it has moved the program aside.
Whole(file, tag) == file # Missing /\ file.sound /\ file.tag = tag
Sure(a) ==
    /\ apps[a].at = "copy" => /\ apps[a].file = "staged"
                              /\ staged[apps[a].tag] # Missing
                              /\ staged[apps[a].tag].tag = apps[a].tag
                              /\ staged[apps[a].tag].opener = a
    /\ apps[a].at = "verify" /\ apps[a].matches => Whole(staged[apps[a].tag], apps[a].tag)
    /\ apps[a].at \in {"unlink", "aside", "install"} => Whole(staged[apps[a].tag], apps[a].tag)
    /\ apps[a].at \in Targeted => newest <= apps[a].tag
    /\ apps[a].at \in {"install", "rollback"} /\ onWindows => exe = Missing

OneUpdates ==
    /\ \A a, b \in Apps : Updating(a) /\ Updating(b) => a = b
    /\ \A a \in Apps : Sure(a)

\* While the program is away every instance runs from the copy beside it, which nobody
\* can remove then.
Images ==
    /\ exe = Missing => onWindows /\ \A a \in Apps : apps[a].image \in {"old", "none"}
    /\ onWindows => \A a \in Apps : apps[a].image # "gone"

UpdateInv ==
    /\ UpdateTypeOK
    /\ \A a \in Apps : Steady(a)
    /\ newest <= released
    /\ ~overlapped => OneUpdates /\ Images
    /\ InstalledIntact

LEMMA AppMarks == /\ Ended.at = "ended" /\ Ended.image = "none"
                  /\ \A app \in App : /\ app.at \in UpdateStep /\ app.tag \in Tags
                                      /\ app.image \in {"exe", "old", "gone"}
BY DEF Ended, App

LEMMA FileShape == /\ Missing \notin File
                   /\ \A file \in File : file.tag \in Tags /\ file.sound \in BOOLEAN
<1>1. DOMAIN Missing = {"missing"}
  BY DEF Missing
<1>2. \A file \in File : "tag" \in DOMAIN file
  BY DEF File
<1>3. QED
  BY <1>1, <1>2 DEF File

-----------------------------------------------------------------------------
(* What the step of one instance leaves alone *)

\* Instance a becomes app, and no other changes.
Turns(a, app) ==
    /\ app \in App \cup {Ended}
    /\ apps' = [apps EXCEPT ![a] = app]

LEMMA TurnsAlone ==
    ASSUME UpdateInv, NEW a \in Apps, NEW app, Turns(a, app)
    PROVE  /\ apps'[a] = app
           /\ \A b \in Apps \ {a} : apps'[b] = apps[b]
           /\ apps' \in [Apps -> App \cup {Ended}]
BY DEF Turns, UpdateInv, UpdateTypeOK

\* A step of an instance that changes no file.
LEMMA FilesKept ==
    ASSUME UpdateInv, NEW a \in Apps, NEW app, Turns(a, app),
           UNCHANGED <<onWindows, released, exe, old, staged, newest>>,
           overlapped' \in BOOLEAN, updates' \in 0..MaxUpdates,
           overlapped => overlapped',
           Steady(a)',
           ~overlapped' => Sure(a)',
           ~overlapped' /\ Updating(a)' => Updating(a) \/ \A b \in Apps : ~Updating(b),
           app.image \in {apps[a].image, "none"} \/ (exe # Missing /\ app.image = "exe")
    PROVE  UpdateInv'
<1>1. /\ apps'[a] = app
      /\ \A b \in Apps \ {a} : apps'[b] = apps[b]
      /\ apps' \in [Apps -> App \cup {Ended}]
  BY TurnsAlone
<1>2. UpdateTypeOK'
  BY <1>1 DEF UpdateInv, UpdateTypeOK
<1>3. \A b \in Apps : Steady(b)'
  BY <1>1 DEF UpdateInv, Steady
<1>4. ~overlapped' => OneUpdates'
  <2> SUFFICES ASSUME ~overlapped' PROVE OneUpdates'
    OBVIOUS
  <2>1. OneUpdates
    BY DEF UpdateInv
  <2>2. \A b \in Apps \ {a} : Updating(b)' <=> Updating(b)
    BY <1>1 DEF Updating
  <2>3. \A b \in Apps \ {a} : Sure(b)'
    BY <1>1, <2>1 DEF OneUpdates, Sure
  <2>4. QED
    BY <2>1, <2>2, <2>3 DEF OneUpdates
<1>5. ~overlapped' => Images'
  BY <1>1 DEF UpdateInv, Images
<1>6. InstalledIntact'
  BY DEF UpdateInv, InstalledIntact
<1>7. QED
  BY <1>2, <1>3, <1>4, <1>5, <1>6 DEF UpdateInv

\* An instance that is not at a step that promises anything.
LEMMA AtRest ==
    ASSUME NEW a \in Apps, apps'[a].at \notin Targeted \cup {"rollback"}
    PROVE  Steady(a)' /\ Sure(a)'
BY DEF Steady, Sure, Targeted

-----------------------------------------------------------------------------
(* The steps of an instance *)

LEMMA UpdateInitInv == UpdateInit => UpdateInv
<1> SUFFICES ASSUME UpdateInit PROVE UpdateInv
  OBVIOUS
<1>1. exe \in File /\ exe # Missing /\ exe.sound /\ exe.tag = newest
  <2>1. newest \in Tags
    BY DEF UpdateInit
  <2>2. PICK file : file = [tag |-> newest, sound |-> TRUE, opener |-> "release"]
    OBVIOUS
  <2>3. file \in File /\ file.sound /\ file.tag = newest
    BY <2>1, <2>2 DEF File
  <2>4. QED
    BY <2>2, <2>3, FileShape DEF UpdateInit
<1>2. updates \in 0..MaxUpdates
  BY UpdateAssumption DEF UpdateInit
<1>3. UpdateTypeOK
  BY <1>1, <1>2 DEF UpdateInit, UpdateTypeOK
<1>4. \A a \in Apps : apps[a].at = "ended" /\ apps[a].image = "none"
  BY AppMarks DEF UpdateInit
<1>5. newest <= released
  BY UpdateAssumption DEF UpdateInit
<1>6. QED
  BY <1>1, <1>3, <1>4, <1>5
     DEF UpdateInv, Steady, OneUpdates, Sure, Updating, Images, InstalledIntact, Targeted

LEMMA LaunchInv ==
    ASSUME UpdateInv, NEW a \in Apps, Launch(a)
    PROVE  UpdateInv'
<1>1. PICK app : app = [at |-> "ready", current |-> exe.tag, image |-> "exe",
                        tag |-> exe.tag, file |-> "gone", matches |-> FALSE]
  OBVIOUS
<1>2. exe \in File
  BY DEF Launch, UpdateInv, UpdateTypeOK
<1>3. app \in App /\ app.at = "ready" /\ app.image = "exe"
  BY <1>1, <1>2, FileShape DEF App, UpdateStep
<1>4. Turns(a, app)
  BY <1>1, <1>3 DEF Turns, Launch
<1>5. apps'[a].at = "ready"
  BY <1>3, <1>4, TurnsAlone
<1>6. Steady(a)' /\ Sure(a)' /\ ~Updating(a)'
  BY <1>5, AtRest DEF Targeted, Updating
<1>7. QED
  BY <1>3, <1>4, <1>6, FilesKept DEF Launch, UpdateInv, UpdateTypeOK

LEMMA KillInv ==
    ASSUME UpdateInv, NEW a \in Apps, Kill(a)
    PROVE  UpdateInv'
<1>1. PICK app : app = Ended
  OBVIOUS
<1>2. Turns(a, app) /\ app.at = "ended" /\ app.image = "none"
  BY <1>1, AppMarks DEF Turns, Kill
<1>3. apps'[a].at = "ended"
  BY <1>2, TurnsAlone
<1>4. Steady(a)' /\ Sure(a)' /\ ~Updating(a)'
  BY <1>3, AtRest DEF Targeted, Updating
<1>5. QED
  BY <1>2, <1>4, FilesKept DEF Kill, UpdateInv, UpdateTypeOK

\* An instance that only goes on to another step.
LEMMA StepTaken ==
    ASSUME UpdateInv, NEW a \in Apps, NEW step \in UpdateStep, apps[a] # Ended, Then(a, step)
    PROVE  \E app \in App :
             /\ Turns(a, app) /\ apps'[a] = app
             /\ app.at = step /\ app.tag = apps[a].tag /\ app.file = apps[a].file
             /\ app.image = apps[a].image /\ app.matches = apps[a].matches
<1>1. PICK app : app = [apps[a] EXCEPT !.at = step]
  OBVIOUS
<1>2. apps[a] \in App
  BY DEF UpdateInv, UpdateTypeOK
<1>3. /\ app \in App
      /\ app.at = step /\ app.tag = apps[a].tag /\ app.file = apps[a].file
      /\ app.image = apps[a].image /\ app.matches = apps[a].matches
  BY <1>1, <1>2 DEF App
<1>4. Turns(a, app)
  BY <1>1, <1>3 DEF Turns, Then
<1>5. QED
  BY <1>3, <1>4, TurnsAlone

\* A step that gives up, or has nothing more to do.
LEMMA GivesUp ==
    ASSUME UpdateInv, NEW a \in Apps, NEW step \in {"ready", "clean"},
           Updating(a), Then(a, step),
           UNCHANGED <<onWindows, released, exe, old, staged, newest, overlapped, updates>>
    PROVE  UpdateInv'
<1>1. apps[a] # Ended
  BY AppMarks DEF Updating
<1>2. PICK app \in App : /\ Turns(a, app) /\ apps'[a] = app
                         /\ app.at = step /\ app.image = apps[a].image
  BY <1>1, StepTaken DEF UpdateStep
<1>3. Steady(a)' /\ Sure(a)'
  BY <1>2, AtRest DEF Targeted
<1>4. QED
  BY <1>2, <1>3, FilesKept DEF UpdateInv, UpdateTypeOK

LEMMA BeginUpdateInv ==
    ASSUME UpdateInv, NEW a \in Apps, BeginUpdate(a)
    PROVE  UpdateInv'
<1>1. apps[a] # Ended
  BY AppMarks DEF BeginUpdate, Doing
<1>2. PICK app \in App : /\ Turns(a, app) /\ apps'[a] = app
                         /\ app.at = "latest" /\ app.image = apps[a].image
  BY <1>1, StepTaken DEF BeginUpdate, UpdateStep
<1>3. Steady(a)' /\ Sure(a)'
  BY <1>2, AtRest DEF Targeted
<1>4. updates' \in 0..MaxUpdates
  BY UpdateAssumption DEF BeginUpdate, UpdateInv, UpdateTypeOK
<1>5. ~overlapped' => \A b \in Apps : ~Updating(b)
  BY DEF BeginUpdate
<1>6. overlapped' \in BOOLEAN /\ (overlapped => overlapped')
  BY DEF BeginUpdate
<1>7. QED
  BY <1>2, <1>3, <1>4, <1>5, <1>6, FilesKept DEF BeginUpdate

LEMMA ResolveLatestInv ==
    ASSUME UpdateInv, NEW a \in Apps, ResolveLatest(a)
    PROVE  UpdateInv'
<1>1. apps[a] \in App /\ Updating(a)
  BY AppMarks DEF ResolveLatest, Doing, UpdateInv, UpdateTypeOK, Updating
<1>2. CASE ~(apps[a].current < released)
  <2>1. Then(a, "ready")
    BY <1>2 DEF ResolveLatest, Then
  <2>2. QED
    BY <1>1, <2>1, GivesUp DEF ResolveLatest
<1>3. CASE apps[a].current < released
  <2>1. PICK app : app = [apps[a] EXCEPT !.at = "sums", !.tag = released]
    OBVIOUS
  <2>2. released \in Tags
    BY DEF UpdateInv, UpdateTypeOK
  <2>3. /\ app \in App /\ app.at = "sums" /\ app.tag = released
        /\ app.image = apps[a].image
    BY <1>1, <2>1, <2>2 DEF App, UpdateStep
  <2>4. Turns(a, app)
    BY <1>3, <2>1, <2>3 DEF Turns, ResolveLatest
  <2>5. apps'[a] = app
    BY <2>4, TurnsAlone
  <2>6. released \in Nat /\ newest <= released
    BY <2>2, UpdateAssumption DEF UpdateInv
  <2>7. Steady(a)' /\ Sure(a)'
    BY <2>3, <2>5, <2>6 DEF Steady, Sure, Targeted, ResolveLatest
  <2>8. QED
    BY <1>1, <2>3, <2>4, <2>7, FilesKept DEF ResolveLatest, UpdateInv, UpdateTypeOK
<1>4. QED
  BY <1>2, <1>3

LEMMA FetchChecksumsInv ==
    ASSUME UpdateInv, NEW a \in Apps, FetchChecksums(a)
    PROVE  UpdateInv'
<1>1. apps[a] # Ended /\ Updating(a)
  BY AppMarks DEF FetchChecksums, Doing, Updating
<1>2. CASE Then(a, "ready")
  BY <1>1, <1>2, GivesUp DEF FetchChecksums
<1>3. CASE Then(a, "open")
  <2>1. PICK app \in App : /\ Turns(a, app) /\ apps'[a] = app /\ app.at = "open"
                           /\ app.tag = apps[a].tag /\ app.image = apps[a].image
    BY <1>1, <1>3, StepTaken DEF UpdateStep
  <2>2. Steady(a)' /\ (~overlapped' => Sure(a)')
    BY <2>1 DEF Steady, Sure, Targeted, FetchChecksums, Doing, UpdateInv, OneUpdates
  <2>3. QED
    BY <1>1, <2>1, <2>2, FilesKept DEF FetchChecksums, UpdateInv, UpdateTypeOK
<1>4. QED
  BY <1>2, <1>3 DEF FetchChecksums

LEMMA VerifyStreamInv ==
    ASSUME UpdateInv, NEW a \in Apps, VerifyStream(a)
    PROVE  UpdateInv'
<1>1. apps[a] # Ended /\ Updating(a)
  BY AppMarks DEF VerifyStream, Doing, Updating
<1>2. CASE Then(a, "clean")
  BY <1>1, <1>2, GivesUp DEF VerifyStream
<1>3. CASE apps[a].matches /\ Then(a, Swap(a))
  <2>1. Swap(a) \in {"unlink", "install"} /\ (Swap(a) = "unlink" <=> onWindows)
    BY DEF Swap
  <2>2. PICK step : step = Swap(a)
    OBVIOUS
  <2>3. PICK app \in App : /\ Turns(a, app) /\ apps'[a] = app /\ app.at = step
                           /\ app.tag = apps[a].tag /\ app.image = apps[a].image
    BY <1>1, <1>3, <2>1, <2>2, StepTaken DEF UpdateStep
  <2>4. Steady(a)' /\ (~overlapped' => Sure(a)')
    BY <1>3, <2>1, <2>2, <2>3 DEF Steady, Sure, Targeted, VerifyStream, Doing, UpdateInv, OneUpdates
  <2>5. QED
    BY <1>1, <2>3, <2>4, FilesKept DEF VerifyStream, UpdateInv, UpdateTypeOK
<1>4. QED
  BY <1>2, <1>3 DEF VerifyStream

\* A step under way that writes files: what is left to show when others stay as they are
\* but for the names of their files.
LEMMA LoneKept ==
    ASSUME UpdateInv, NEW a \in Apps, Updating(a), ~overlapped,
           \A b \in Apps \ {a} : apps'[b].at = apps[b].at,
           Sure(a)'
    PROVE  OneUpdates'
<1>1. OneUpdates /\ \A b \in Apps \ {a} : ~Updating(b)
  BY DEF UpdateInv, OneUpdates
<1>2. \A b \in Apps \ {a} : ~Updating(b)'
  BY <1>1 DEF Updating
<1>3. \A b \in Apps \ {a} : Sure(b)'
  BY <1>2, AtRest DEF Updating, Targeted
<1>4. QED
  BY <1>2, <1>3 DEF OneUpdates

LEMMA OpenStagedInv ==
    ASSUME UpdateInv, NEW a \in Apps, OpenStaged(a)
    PROVE  UpdateInv'
<1>1. apps[a] \in App /\ Updating(a) /\ apps[a].tag \in Tags
  BY AppMarks DEF OpenStaged, Doing, UpdateInv, UpdateTypeOK, Updating
<1>2. CASE Then(a, "ready") /\ UNCHANGED staged
  BY <1>1, <1>2, GivesUp DEF OpenStaged
<1>3. PICK t : t = apps[a].tag
  OBVIOUS
<1>4. CASE /\ staged' = [staged EXCEPT ![t] = [tag |-> t, sound |-> FALSE, opener |-> a]]
           /\ apps' = [apps EXCEPT ![a].at = "copy", ![a].file = "staged"]
  <2>1. PICK app : app = [apps[a] EXCEPT !.at = "copy", !.file = "staged"]
    OBVIOUS
  <2>2. /\ app \in App /\ app.at = "copy" /\ app.tag = t /\ app.file = "staged"
        /\ app.image = apps[a].image
    BY <1>1, <1>3, <2>1 DEF App, UpdateStep
  <2>3. Turns(a, app)
    BY <1>1, <1>4, <2>1, <2>2 DEF Turns, UpdateInv, UpdateTypeOK
  <2>4. /\ apps'[a] = app
        /\ \A b \in Apps \ {a} : apps'[b] = apps[b]
        /\ apps' \in [Apps -> App \cup {Ended}]
    BY <2>3, TurnsAlone
  <2>5. PICK file : file = [tag |-> t, sound |-> FALSE, opener |-> a]
    OBVIOUS
  <2>6. file \in File /\ file # Missing /\ file.tag = t /\ file.opener = a
    <3>1. file \in File /\ file.tag = t /\ file.opener = a
      <4>1. t \in Tags
        BY <1>1, <1>3
      <4>2. QED
        BY <2>5, <4>1 DEF File
    <3>2. QED
      BY <3>1, FileShape
  <2>7. /\ staged' \in [Tags -> File \cup {Missing}]
        /\ staged'[t] = file
        /\ \A u \in Tags : staged[u] # Missing => staged'[u] # Missing
    BY <1>1, <1>3, <1>4, <2>5, <2>6 DEF UpdateInv, UpdateTypeOK
  <2>8. UpdateTypeOK'
    BY <2>4, <2>7 DEF OpenStaged, UpdateInv, UpdateTypeOK
  <2>9. Steady(a)'
    BY <1>3, <2>2, <2>4, <2>6, <2>7 DEF Steady, Targeted, UpdateInv, OpenStaged, Doing
  <2>10. ASSUME NEW b \in Apps \ {a} PROVE Steady(b)'
    <3>1. apps[b].at = "copy" => apps[b].tag \in Tags
      BY AppMarks DEF UpdateInv, UpdateTypeOK
    <3>2. QED
      BY <3>1, <2>4, <2>7 DEF Steady, UpdateInv, OpenStaged
  <2>11. ~overlapped => Sure(a)'
    BY <1>3, <2>2, <2>4, <2>6, <2>7 DEF Sure, Targeted, UpdateInv, OneUpdates, OpenStaged, Doing
  <2>12. ~overlapped => OneUpdates'
    BY <1>1, <2>4, <2>11, LoneKept
  <2>13. ~overlapped => Images'
    BY <2>2, <2>4 DEF UpdateInv, Images, OpenStaged
  <2>14. InstalledIntact' /\ newest' <= released'
    BY DEF UpdateInv, InstalledIntact, OpenStaged
  <2>15. QED
    BY <2>8, <2>9, <2>10, <2>12, <2>13, <2>14 DEF UpdateInv, OpenStaged
<1>5. QED
  BY <1>2, <1>3, <1>4 DEF OpenStaged

LEMMA CopyStreamInv ==
    ASSUME UpdateInv, NEW a \in Apps, CopyStream(a)
    PROVE  UpdateInv'
<1>1. apps[a] \in App /\ Updating(a) /\ apps[a].tag \in Tags /\ apps[a].at = "copy"
  BY AppMarks DEF CopyStream, Doing, UpdateInv, UpdateTypeOK, Updating
<1>2. CASE Then(a, "clean") /\ UNCHANGED <<staged, exe>>
  BY <1>1, <1>2, GivesUp DEF CopyStream
<1>3. PICK t : t = apps[a].tag
  OBVIOUS
<1>4. ASSUME NEW intact \in BOOLEAN,
             apps' = [apps EXCEPT ![a].at = "verify", ![a].matches = intact],
             staged' = IF apps[a].file = "staged"
                       THEN [staged EXCEPT ![t] = Filled(a, @, intact)] ELSE staged,
             exe' = IF apps[a].file = "exe" THEN Filled(a, exe, intact) ELSE exe
      PROVE  UpdateInv'
  <2>1. PICK app : app = [apps[a] EXCEPT !.at = "verify", !.matches = intact]
    OBVIOUS
  <2>2. /\ app \in App /\ app.at = "verify" /\ app.tag = t /\ app.matches = intact
        /\ app.image = apps[a].image
    BY <1>1, <1>3, <2>1 DEF App, UpdateStep
  <2>3. Turns(a, app)
    BY <1>1, <1>4, <2>1, <2>2 DEF Turns, UpdateInv, UpdateTypeOK
  <2>4. /\ apps'[a] = app
        /\ \A b \in Apps \ {a} : apps'[b] = apps[b]
        /\ apps' \in [Apps -> App \cup {Ended}]
    BY <2>3, TurnsAlone
  <2>5. ASSUME NEW file \in File
        PROVE  /\ Filled(a, file, intact) \in File
               /\ Filled(a, file, intact) # Missing
               /\ Filled(a, file, intact).tag = file.tag
               /\ file.opener = a => Filled(a, file, intact).sound = intact
    <3>1. PICK filled : filled = [file EXCEPT !.sound = intact /\ (file.sound \/ file.opener = a)]
      OBVIOUS
    <3>2. filled \in File /\ filled.tag = file.tag
      BY <1>4, <3>1 DEF File
    <3>3. filled.sound = (intact /\ (file.sound \/ file.opener = a))
      BY <3>1 DEF File
    <3>4. QED
      BY <1>4, <3>1, <3>2, <3>3, FileShape DEF Filled
  <2>6. exe' \in File \cup {Missing} /\ (exe = Missing <=> exe' = Missing)
    <3>1. apps[a].file = "exe" => exe # Missing
      BY <1>1 DEF UpdateInv, Steady
    <3>2. QED
      BY <1>4, <2>5, <3>1 DEF UpdateInv, UpdateTypeOK
  <2>7. apps[a].file = "staged" => staged[t] \in File
    BY <1>1, <1>3 DEF UpdateInv, UpdateTypeOK, Steady
  <2>8. /\ staged' \in [Tags -> File \cup {Missing}]
        /\ \A u \in Tags : staged[u] # Missing => staged'[u] # Missing
        /\ apps[a].file = "staged" => staged'[t] = Filled(a, staged[t], intact)
    BY <1>1, <1>3, <1>4, <2>5, <2>7 DEF UpdateInv, UpdateTypeOK
  <2>9. UpdateTypeOK'
    BY <2>4, <2>6, <2>8 DEF CopyStream, UpdateInv, UpdateTypeOK
  <2>10. Steady(a)'
    BY <1>1, <1>3, <2>2, <2>4 DEF Steady, Targeted, UpdateInv, CopyStream
  <2>11. ASSUME NEW b \in Apps \ {a} PROVE Steady(b)'
    <3>1. apps[b].at = "copy" => apps[b].tag \in Tags
      BY AppMarks DEF UpdateInv, UpdateTypeOK
    <3>2. QED
      BY <3>1, <2>4, <2>6, <2>8 DEF Steady, UpdateInv, CopyStream
  <2>12. ASSUME ~overlapped PROVE apps[a].file = "staged" /\ Sure(a)' /\ exe' = exe
    <3>1. Sure(a)
      BY <2>12 DEF UpdateInv, OneUpdates
    <3>2. apps[a].file = "staged" /\ exe' = exe
      BY <1>1, <1>4, <3>1 DEF Sure
    <3>3. staged[t] \in File /\ staged[t].tag = t /\ staged[t].opener = a
      BY <1>1, <1>3, <2>7, <3>1, <3>2 DEF Sure
    <3>4. intact => Whole(staged'[t], t)
      BY <2>5, <2>8, <3>2, <3>3 DEF Whole
    <3>5. Sure(a)'
      BY <1>1, <1>3, <2>2, <2>4, <3>1, <3>4 DEF Sure, Whole, Targeted, CopyStream
    <3>6. QED
      BY <3>2, <3>5
  <2>13. ~overlapped => OneUpdates'
    BY <1>1, <2>4, <2>12, LoneKept
  <2>14. ~overlapped => Images'
    BY <2>2, <2>4, <2>12 DEF UpdateInv, Images, CopyStream
  <2>15. InstalledIntact' /\ newest' <= released'
    BY <2>12 DEF UpdateInv, InstalledIntact, CopyStream
  <2>16. QED
    BY <2>9, <2>10, <2>11, <2>13, <2>14, <2>15 DEF UpdateInv, CopyStream
<1>5. QED
  BY <1>2, <1>3, <1>4 DEF CopyStream

LEMMA CleanInv ==
    ASSUME UpdateInv, NEW a \in Apps, Clean(a)
    PROVE  UpdateInv'
<1>1. apps[a] \in App /\ Updating(a) /\ apps[a].tag \in Tags /\ apps[a].at = "clean"
  BY AppMarks DEF Clean, Doing, UpdateInv, UpdateTypeOK, Updating
<1>2. CASE Then(a, "ready") /\ UNCHANGED staged
  BY <1>1, <1>2, GivesUp DEF Clean
<1>3. PICK t : t = apps[a].tag
  OBVIOUS
<1>4. CASE /\ Movable(t)
           /\ staged' = [staged EXCEPT ![t] = Missing]
           /\ apps' = [b \in Apps |->
                IF b = a THEN [apps[a] EXCEPT !.at = "ready", !.file = "gone"]
                ELSE IF apps[b] # Ended /\ apps[b].tag = t /\ apps[b].file = "staged"
                THEN [apps[b] EXCEPT !.file = "gone"] ELSE apps[b]]
  <2>1. apps'[a] \in App /\ apps'[a].at = "ready" /\ apps'[a].image = apps[a].image
    <3>1. PICK app : app = [apps[a] EXCEPT !.at = "ready", !.file = "gone"]
      OBVIOUS
    <3>2. app \in App /\ app.at = "ready" /\ app.image = apps[a].image
      BY <1>1, <3>1 DEF App, UpdateStep
    <3>3. QED
      BY <1>4, <3>1, <3>2
  <2>2. ASSUME NEW b \in Apps \ {a}
        PROVE  /\ apps'[b] \in App \cup {Ended}
               /\ apps'[b].at = apps[b].at /\ apps'[b].image = apps[b].image
               /\ apps'[b].tag = apps[b].tag
               /\ apps'[b].file # apps[b].file => apps'[b].file = "gone"
               /\ apps[b].tag = t /\ apps[b] # Ended => apps'[b].file # "staged"
    <3>1. PICK app : app = [apps[b] EXCEPT !.file = "gone"]
      OBVIOUS
    <3>2. apps[b] \in App => /\ app \in App /\ app.at = apps[b].at /\ app.tag = apps[b].tag
                             /\ app.image = apps[b].image /\ app.file = "gone"
      BY <3>1 DEF App
    <3>3. apps[b] # Ended => apps[b] \in App
      BY DEF UpdateInv, UpdateTypeOK
    <3>4. CASE apps[b] # Ended /\ apps[b].tag = t /\ apps[b].file = "staged"
      BY <1>4, <3>1, <3>2, <3>3, <3>4
    <3>5. CASE ~(apps[b] # Ended /\ apps[b].tag = t /\ apps[b].file = "staged")
      <4>1. apps'[b] = apps[b]
        BY <1>4, <3>5
      <4>2. QED
        BY <3>3, <3>5, <4>1
    <3>6. QED
      BY <3>4, <3>5
  <2>3. /\ staged' \in [Tags -> File \cup {Missing}]
        /\ \A u \in Tags : u # t => staged'[u] = staged[u]
    BY <1>1, <1>3, <1>4 DEF UpdateInv, UpdateTypeOK
  <2>4. UpdateTypeOK'
    <3>1. apps' \in [Apps -> App \cup {Ended}]
      BY <1>4, <2>1, <2>2
    <3>2. QED
      BY <2>3, <3>1 DEF Clean, UpdateInv, UpdateTypeOK
  <2>5. Steady(a)' /\ Sure(a)'
    BY <2>1, AtRest DEF Targeted
  <2>6. ASSUME NEW b \in Apps \ {a} PROVE Steady(b)'
    <3>1. apps[b].at = "copy" => apps[b].tag \in Tags /\ apps[b] # Ended
      BY AppMarks DEF UpdateInv, UpdateTypeOK
    <3>2. QED
      BY <3>1, <2>2, <2>3 DEF Steady, UpdateInv, Clean
  <2>7. ~overlapped => OneUpdates'
    BY <1>1, <2>2, <2>5, LoneKept
  <2>8. ~overlapped => Images'
    BY <2>1, <2>2 DEF UpdateInv, Images, Clean
  <2>9. InstalledIntact' /\ newest' <= released'
    BY DEF UpdateInv, InstalledIntact, Clean
  <2>10. QED
    BY <2>4, <2>5, <2>6, <2>7, <2>8, <2>9 DEF UpdateInv, Clean
<1>5. QED
  BY <1>2, <1>3, <1>4 DEF Clean

LEMMA UnlinkOldInv ==
    ASSUME UpdateInv, NEW a \in Apps, UnlinkOld(a)
    PROVE  UpdateInv'
<1>1. apps[a] \in App /\ Updating(a) /\ apps[a].at = "unlink"
  BY AppMarks DEF UnlinkOld, Doing, UpdateInv, UpdateTypeOK, Updating
<1>2. PICK app \in App : /\ Turns(a, app) /\ apps'[a] = app /\ app.at = "aside"
                         /\ app.tag = apps[a].tag /\ app.image = apps[a].image
  BY <1>1, AppMarks, StepTaken DEF UnlinkOld, Doing, UpdateStep
<1>3. /\ \A b \in Apps \ {a} : apps'[b] = apps[b]
      /\ apps' \in [Apps -> App \cup {Ended}]
  BY <1>2, TurnsAlone
<1>4. UpdateTypeOK'
  BY <1>3 DEF UnlinkOld, UpdateInv, UpdateTypeOK
<1>5. \A b \in Apps : Steady(b)'
  BY <1>1, <1>2, <1>3 DEF Steady, Targeted, UnlinkOld, UpdateInv
<1>6. ~overlapped => Sure(a)'
  BY <1>1, <1>2 DEF Sure, Targeted, UnlinkOld, UpdateInv, OneUpdates
<1>7. ~overlapped => OneUpdates'
  BY <1>1, <1>3, <1>6, LoneKept
<1>8. ~overlapped => Images'
  BY <1>2, <1>3 DEF UpdateInv, Images, UnlinkOld
<1>9. InstalledIntact'
  <2>1. ASSUME ~overlapped, exe = Missing PROVE old' = old
    <3>1. apps[a].image = "old"
      BY <1>1, <2>1, AppMarks DEF UpdateInv, Images
    <3>2. QED
      BY <3>1 DEF UnlinkOld
  <2>2. QED
    BY <2>1 DEF UpdateInv, InstalledIntact, UnlinkOld
<1>10. QED
  BY <1>4, <1>5, <1>7, <1>8, <1>9 DEF UpdateInv, UnlinkOld

\* The program moves from one name to the other, and the instances that run from it with
\* it, while instance a goes on to its next step.
LEMMA ImagesMoved ==
    ASSUME UpdateInv, NEW a \in Apps, apps[a] # Ended, NEW step \in UpdateStep,
           NEW from \in {"exe", "old"}, NEW to \in {"exe", "old"},
           apps' = [b \in Apps |->
             LET app == IF b = a THEN [apps[b] EXCEPT !.at = step] ELSE apps[b] IN
             IF app.image = from THEN [app EXCEPT !.image = to] ELSE app]
    PROVE  /\ apps' \in [Apps -> App \cup {Ended}]
           /\ apps'[a].at = step
           /\ \A b \in Apps \ {a} : apps'[b].at = apps[b].at
           /\ \A b \in Apps :
                /\ apps'[b].tag = apps[b].tag /\ apps'[b].file = apps[b].file
                /\ apps'[b].image = IF apps[b].image = from THEN to ELSE apps[b].image
<1>1. ASSUME NEW b \in Apps
      PROVE  /\ apps'[b] \in App \cup {Ended}
             /\ apps'[b].at = IF b = a THEN step ELSE apps[b].at
             /\ apps'[b].tag = apps[b].tag /\ apps'[b].file = apps[b].file
             /\ apps'[b].image = IF apps[b].image = from THEN to ELSE apps[b].image
  <2>1. CASE apps[b] = Ended
    <3>1. b # a /\ apps[b].image # from
      BY <2>1, AppMarks
    <3>2. QED
      BY <2>1, <3>1
  <2>2. CASE apps[b] \in App
    <3>1. PICK app : app = IF b = a THEN [apps[b] EXCEPT !.at = step] ELSE apps[b]
      OBVIOUS
    <3>2. /\ app \in App /\ app.at = IF b = a THEN step ELSE apps[b].at
          /\ app.tag = apps[b].tag /\ app.file = apps[b].file /\ app.image = apps[b].image
      BY <2>2, <3>1 DEF App
    <3>3. PICK moved : moved = [app EXCEPT !.image = to]
      OBVIOUS
    <3>4. /\ moved \in App /\ moved.at = app.at /\ moved.tag = app.tag
          /\ moved.file = app.file /\ moved.image = to
      BY <3>2, <3>3 DEF App
    <3>5. apps'[b] = IF app.image = from THEN moved ELSE app
      BY <3>1, <3>3
    <3>6. QED
      BY <3>2, <3>4, <3>5
  <2>3. QED
    BY <2>1, <2>2 DEF UpdateInv, UpdateTypeOK
<1>2. apps' \in [Apps -> App \cup {Ended}]
  BY <1>1
<1>3. QED
  BY <1>1, <1>2

LEMMA MoveAsideInv ==
    ASSUME UpdateInv, NEW a \in Apps, MoveAside(a)
    PROVE  UpdateInv'
<1>1. apps[a] # Ended /\ Updating(a) /\ apps[a].at = "aside" /\ onWindows
  BY AppMarks DEF MoveAside, Doing, Updating, UpdateInv, Steady
<1>2. CASE Then(a, "clean") /\ UNCHANGED <<exe, old>>
  BY <1>1, <1>2, GivesUp DEF MoveAside
<1>3. CASE /\ exe # Missing
           /\ \A b \in Apps : apps[b].image # "old"
           /\ old' = exe
           /\ exe' = Missing
           /\ apps' = [b \in Apps |->
                LET app == IF b = a THEN [apps[b] EXCEPT !.at = "install"] ELSE apps[b] IN
                IF app.image = "exe" THEN [app EXCEPT !.image = "old"] ELSE app]
  <2>1. /\ apps' \in [Apps -> App \cup {Ended}]
        /\ apps'[a].at = "install"
        /\ \A b \in Apps \ {a} : apps'[b].at = apps[b].at
        /\ \A b \in Apps :
             /\ apps'[b].tag = apps[b].tag /\ apps'[b].file = apps[b].file
             /\ apps'[b].image = IF apps[b].image = "exe" THEN "old" ELSE apps[b].image
    BY <1>1, <1>3, ImagesMoved DEF UpdateStep
  <2>2. UpdateTypeOK'
    BY <1>3, <2>1 DEF MoveAside, UpdateInv, UpdateTypeOK
  <2>3. \A b \in Apps : Steady(b)'
    BY <1>1, <2>1 DEF Steady, Targeted, MoveAside, UpdateInv
  <2>4. ~overlapped => Sure(a)'
    BY <1>1, <1>3, <2>1 DEF Sure, Targeted, MoveAside, UpdateInv, OneUpdates
  <2>5. ~overlapped => OneUpdates'
    BY <1>1, <2>1, <2>4, LoneKept
  <2>6. ~overlapped => Images'
    <3> SUFFICES ASSUME ~overlapped PROVE Images'
      OBVIOUS
    <3>1. \A b \in Apps : apps[b].image \in {"exe", "none"}
      BY <1>1, <1>3, AppMarks DEF UpdateInv, UpdateTypeOK, Images
    <3>2. QED
      BY <1>1, <2>1, <3>1 DEF Images, MoveAside
  <2>7. InstalledIntact'
    BY <1>1, <1>3 DEF UpdateInv, InstalledIntact, MoveAside
  <2>8. QED
    BY <2>2, <2>3, <2>5, <2>6, <2>7 DEF UpdateInv, MoveAside
<1>4. QED
  BY <1>2, <1>3 DEF MoveAside

LEMMA RollbackInv ==
    ASSUME UpdateInv, NEW a \in Apps, Rollback(a)
    PROVE  UpdateInv'
<1>1. apps[a] # Ended /\ Updating(a) /\ apps[a].at = "rollback" /\ onWindows
  BY AppMarks DEF Rollback, Doing, Updating, UpdateInv, Steady
<1>2. CASE Then(a, "clean") /\ UNCHANGED <<exe, old>>
  BY <1>1, <1>2, GivesUp DEF Rollback
<1>3. CASE /\ old # Missing
           /\ exe' = old
           /\ old' = Missing
           /\ apps' = [b \in Apps |->
                LET app == IF b = a THEN [apps[b] EXCEPT !.at = "clean"] ELSE apps[b] IN
                IF app.image = "old" THEN [app EXCEPT !.image = "exe"] ELSE app]
  <2>1. /\ apps' \in [Apps -> App \cup {Ended}]
        /\ apps'[a].at = "clean"
        /\ \A b \in Apps \ {a} : apps'[b].at = apps[b].at
        /\ \A b \in Apps :
             /\ apps'[b].tag = apps[b].tag /\ apps'[b].file = apps[b].file
             /\ apps'[b].image = IF apps[b].image = "old" THEN "exe" ELSE apps[b].image
    BY <1>1, <1>3, ImagesMoved DEF UpdateStep
  <2>2. UpdateTypeOK'
    BY <1>3, <2>1 DEF Rollback, UpdateInv, UpdateTypeOK
  <2>3. \A b \in Apps : Steady(b)'
    BY <1>1, <1>3, <2>1 DEF Steady, Targeted, Rollback, UpdateInv
  <2>4. Sure(a)'
    BY <2>1, AtRest DEF Targeted
  <2>5. ~overlapped => OneUpdates'
    BY <1>1, <2>1, <2>4, LoneKept
  <2>6. ~overlapped => Images'
    BY <1>3, <2>1 DEF UpdateInv, Images, Rollback
  <2>7. InstalledIntact'
    <3>1. ~overlapped => exe = Missing
      BY <1>1 DEF UpdateInv, OneUpdates, Sure
    <3>2. QED
      BY <1>3, <3>1 DEF UpdateInv, InstalledIntact, Rollback
  <2>8. QED
    BY <2>2, <2>3, <2>5, <2>6, <2>7 DEF UpdateInv, Rollback
<1>4. QED
  BY <1>2, <1>3 DEF Rollback

LEMMA InstallStagedInv ==
    ASSUME UpdateInv, NEW a \in Apps, InstallStaged(a)
    PROVE  UpdateInv'
<1>1. apps[a] \in App /\ Updating(a) /\ apps[a].tag \in Tags /\ apps[a].at = "install"
  BY AppMarks DEF InstallStaged, Doing, Updating, UpdateInv, UpdateTypeOK
<1>2. PICK t : t = apps[a].tag
  OBVIOUS
<1>3. CASE Then(a, IF onWindows THEN "rollback" ELSE "clean") /\ UNCHANGED <<exe, staged, newest>>
  <2>1. CASE ~onWindows
    BY <1>1, <1>3, <2>1, GivesUp DEF InstallStaged
  <2>2. CASE onWindows
    <3>1. PICK app \in App : /\ Turns(a, app) /\ apps'[a] = app /\ app.at = "rollback"
                             /\ app.image = apps[a].image
      BY <1>1, <1>3, <2>2, AppMarks, StepTaken DEF UpdateStep
    <3>2. Steady(a)'
      BY <2>2, <3>1 DEF Steady, Targeted, InstallStaged
    <3>3. ~overlapped' => Sure(a)'
      BY <1>1, <1>3, <3>1 DEF Sure, Targeted, InstallStaged, UpdateInv, OneUpdates
    <3>4. QED
      BY <1>1, <1>3, <3>1, <3>2, <3>3, FilesKept DEF InstallStaged, UpdateInv, UpdateTypeOK
  <2>3. QED
    BY <2>1, <2>2
<1>4. CASE /\ staged[t] # Missing /\ Movable(t)
           /\ exe' = staged[t]
           /\ staged' = [staged EXCEPT ![t] = Missing]
           /\ newest' = IF t > newest THEN t ELSE newest
           /\ apps' = [b \in Apps |->
                IF b = a \/ apps[b] = Ended THEN Ended
                ELSE [apps[b] EXCEPT
                  !.image = IF @ = "exe" THEN "gone" ELSE @,
                  !.file = IF @ = "staged" /\ apps[b].tag = t THEN "exe"
                           ELSE IF @ = "exe" THEN "gone" ELSE @]]
  <2>1. apps'[a] = Ended /\ apps'[a].at = "ended" /\ apps'[a].image = "none"
    BY <1>4, AppMarks
  <2>2. ASSUME NEW b \in Apps \ {a}
        PROVE  /\ apps'[b] \in App \cup {Ended}
               /\ apps'[b].at = apps[b].at
               /\ apps'[b].tag = apps[b].tag
               /\ apps'[b].image = IF apps[b].image = "exe" THEN "gone" ELSE apps[b].image
               /\ apps'[b].at = "copy" => apps[b] \in App /\ apps'[b].file =
                     IF apps[b].file = "staged" /\ apps[b].tag = t THEN "exe"
                     ELSE IF apps[b].file = "exe" THEN "gone" ELSE apps[b].file
    <3>1. CASE apps[b] = Ended
      BY <1>4, <3>1, AppMarks
    <3>2. CASE apps[b] # Ended
      <4>1. PICK image : image = IF apps[b].image = "exe" THEN "gone" ELSE apps[b].image
        OBVIOUS
      <4>2. PICK file : file = IF apps[b].file = "staged" /\ apps[b].tag = t THEN "exe"
                               ELSE IF apps[b].file = "exe" THEN "gone" ELSE apps[b].file
        OBVIOUS
      <4>3. PICK app : app = [apps[b] EXCEPT !.image = image, !.file = file]
        OBVIOUS
      <4>4. apps[b] \in App
        BY <3>2 DEF UpdateInv, UpdateTypeOK
      <4>5. /\ app \in App /\ app.at = apps[b].at /\ app.tag = apps[b].tag
            /\ app.image = image /\ app.file = file
        BY <4>1, <4>2, <4>3, <4>4 DEF App
      <4>6. apps'[b] = app
        BY <1>4, <3>2, <4>1, <4>2, <4>3
      <4>7. QED
        BY <4>1, <4>2, <4>4, <4>5, <4>6
    <3>3. QED
      BY <3>1, <3>2
  <2>3. /\ staged' \in [Tags -> File \cup {Missing}]
        /\ \A u \in Tags : u # t => staged'[u] = staged[u]
        /\ exe' \in File /\ exe' # Missing
        /\ newest' \in Tags
    BY <1>1, <1>2, <1>4, FileShape DEF UpdateInv, UpdateTypeOK
  <2>4. UpdateTypeOK'
    <3>1. apps' \in [Apps -> App \cup {Ended}]
      BY <1>4, <2>1, <2>2
    <3>2. QED
      BY <2>3, <3>1 DEF InstallStaged, UpdateInv, UpdateTypeOK
  <2>5. Steady(a)' /\ Sure(a)'
    BY <2>1, AtRest DEF Targeted
  <2>6. ASSUME NEW b \in Apps \ {a} PROVE Steady(b)'
    <3>1. apps[b].at = "copy" => apps[b].tag \in Tags
      BY AppMarks DEF UpdateInv, UpdateTypeOK
    <3>2. onWindows /\ apps[b].at = "copy" => apps[b].tag # t
      BY <1>4 DEF Movable, Doing
    <3>3. Steady(b) /\ UNCHANGED <<released, onWindows>>
      BY DEF UpdateInv, InstallStaged
    <3>4. apps'[b].at = "copy" /\ apps'[b].file = "staged" => staged'[apps'[b].tag] # Missing
      BY <2>2, <2>3, <3>1, <3>3 DEF Steady
    <3>5. apps'[b].at = "copy" /\ apps'[b].file = "exe" => exe' # Missing /\ ~onWindows'
      BY <2>2, <2>3, <3>2, <3>3 DEF Steady
    <3>6. QED
      BY <2>2, <3>3, <3>4, <3>5 DEF Steady
  <2>7. ~overlapped => OneUpdates'
    BY <1>1, <2>2, <2>5, LoneKept
  <2>8. ~overlapped => Images'
    <3> SUFFICES ASSUME ~overlapped PROVE Images'
      OBVIOUS
    <3>1. onWindows => exe = Missing
      BY <1>1 DEF UpdateInv, OneUpdates, Sure
    <3>2. onWindows => \A b \in Apps : apps[b].image \in {"old", "none"}
      BY <3>1 DEF UpdateInv, Images
    <3>3. QED
      BY <2>1, <2>2, <2>3, <3>2 DEF Images, InstallStaged
  <2>9. InstalledIntact'
    <3> SUFFICES ASSUME ~overlapped PROVE InstalledIntact'
      BY DEF InstalledIntact, InstallStaged
    <3>1. Whole(staged[t], t) /\ newest <= t
      BY <1>1, <1>2 DEF UpdateInv, OneUpdates, Sure, Targeted
    <3>2. newest' = t
      <4>1. newest \in Nat /\ t \in Nat
        BY <1>1, <1>2, UpdateAssumption DEF UpdateInv, UpdateTypeOK
      <4>2. newest' = IF t > newest THEN t ELSE newest
        BY <1>4
      <4>3. QED
        BY <3>1, <4>1, <4>2
    <3>3. QED
      BY <1>4, <3>1, <3>2 DEF InstalledIntact, Whole
  <2>10. newest' <= released'
    BY <1>1, <1>2, <1>4 DEF UpdateInv, Steady, Targeted, InstallStaged
  <2>11. QED
    BY <2>4, <2>5, <2>6, <2>7, <2>8, <2>9, <2>10 DEF UpdateInv, InstallStaged
<1>5. QED
  BY <1>2, <1>3, <1>4 DEF InstallStaged

LEMMA PublishInv ==
    ASSUME UpdateInv, Publish
    PROVE  UpdateInv'
<1>1. PICK t \in Tags : t > released /\ released' = t
  BY DEF Publish
<1>2. UpdateTypeOK'
  BY <1>1 DEF Publish, UpdateInv, UpdateTypeOK
<1>3. {released, released', newest} \subseteq Nat
  BY <1>1, UpdateAssumption DEF UpdateInv, UpdateTypeOK
<1>4. ASSUME NEW a \in Apps PROVE Steady(a)'
  <2>1. apps[a].at \in Targeted => apps[a].tag \in Nat
    BY AppMarks, UpdateAssumption DEF UpdateInv, UpdateTypeOK, Targeted
  <2>2. QED
    BY <1>1, <1>3, <2>1 DEF Steady, UpdateInv, Publish
<1>5. newest' <= released'
  BY <1>1, <1>3 DEF Publish, UpdateInv
<1>6. ~overlapped' => OneUpdates' /\ Images'
  BY DEF Publish, UpdateInv, OneUpdates, Sure, Updating, Images
<1>7. InstalledIntact'
  BY DEF Publish, UpdateInv, InstalledIntact
<1>8. QED
  BY <1>2, <1>4, <1>5, <1>6, <1>7 DEF UpdateInv

-----------------------------------------------------------------------------
(* Theorems about self-updates *)

THEOREM UpdateInvariant == UpdateSpec => []UpdateInv
<1>1. UpdateInv /\ [UpdateNext]_updateVars => UpdateInv'
  <2> SUFFICES ASSUME UpdateInv, [UpdateNext]_updateVars PROVE UpdateInv'
    OBVIOUS
  <2>1. CASE UNCHANGED updateVars
    BY <2>1 DEF updateVars, UpdateInv, UpdateTypeOK, Steady, OneUpdates, Sure, Updating, Images,
                InstalledIntact
  <2>2. CASE Publish
    BY <2>2, PublishInv
  <2>3. ASSUME NEW a \in Apps,
               \/ Launch(a) \/ Kill(a) \/ BeginUpdate(a) \/ ResolveLatest(a)
               \/ FetchChecksums(a) \/ OpenStaged(a) \/ CopyStream(a) \/ VerifyStream(a)
               \/ Clean(a) \/ UnlinkOld(a) \/ MoveAside(a) \/ InstallStaged(a) \/ Rollback(a)
        PROVE  UpdateInv'
    BY <2>3, LaunchInv, KillInv, BeginUpdateInv, ResolveLatestInv, FetchChecksumsInv,
       OpenStagedInv, CopyStreamInv, VerifyStreamInv, CleanInv, UnlinkOldInv, MoveAsideInv,
       InstallStagedInv, RollbackInv
  <2>4. QED
    BY <2>1, <2>2, <2>3 DEF UpdateNext
<1>2. QED
  BY UpdateInitInv, <1>1, PTL DEF UpdateSpec

\* Files and instances keep their types, however updates overlap, fail or are killed.
THEOREM UpdateTypeCorrect == UpdateSpec => []UpdateTypeOK
<1>1. UpdateInv => UpdateTypeOK
  BY DEF UpdateInv
<1>2. QED
  BY UpdateInvariant, <1>1, PTL

\* The program is the newest release installed, whole, or beside where it was on Windows,
\* while updates do not overlap.
THEOREM InstalledIntactHolds == UpdateSpec => []InstalledIntact
<1>1. UpdateInv => InstalledIntact
  BY DEF UpdateInv
<1>2. QED
  BY UpdateInvariant, <1>1, PTL

-----------------------------------------------------------------------------
(* Lemmas about the rows of a table *)

LEMMA RowsAreFew ==
    ASSUME NEW rows, rows \subseteq Moments
    PROVE  /\ rows \subseteq Nat
           /\ IsFiniteSet(rows)
           /\ Cardinality(rows) \in Nat
           /\ rows = {} <=> Cardinality(rows) = 0
<1>1. IsFiniteSet(Moments) /\ Moments \subseteq Nat
  BY ClockAssumption, FS_Interval DEF Moments
<1>2. IsFiniteSet(rows)
  BY <1>1, FS_Subset
<1>3. QED
  BY <1>1, <1>2, FS_CardinalityType, FS_EmptySet

\* The later a row, the higher its place...
LEMMA PlaceGrows ==
    ASSUME NEW rows, rows \subseteq Moments, NEW at \in rows
    PROVE  /\ Place(rows, at) \in 1..Cardinality(rows)
           /\ \A other \in rows : at < other => Place(rows, at) < Place(rows, other)
<1>1. at \in Nat /\ rows \subseteq Nat /\ IsFiniteSet(rows) /\ Cardinality(rows) \in Nat
  BY RowsAreFew
<1>. DEFINE UpTo(m) == {other \in rows : other <= m}
<1>2. ASSUME NEW m \in rows
      PROVE  /\ IsFiniteSet(UpTo(m))
             /\ Cardinality(UpTo(m)) \in Nat
             /\ Cardinality(UpTo(m)) <= Cardinality(rows)
             /\ Place(rows, m) = Cardinality(UpTo(m))
  BY <1>1, FS_Subset, FS_CardinalityType DEF Place
<1>3. Cardinality(UpTo(at)) > 0
  <2>1. at \in UpTo(at)
    BY <1>1
  <2>. HIDE DEF UpTo
  <2>2. UpTo(at) # {} /\ IsFiniteSet(UpTo(at)) /\ Cardinality(UpTo(at)) \in Nat
    BY <1>2, <2>1
  <2>3. Cardinality(UpTo(at)) # 0
    BY <2>2, FS_EmptySet
  <2>4. QED
    BY <2>2, <2>3
<1>4. ASSUME NEW other \in rows, at < other
      PROVE  Cardinality(UpTo(at)) < Cardinality(UpTo(other))
  <2>1. other \in Nat
    BY <1>1
  <2>2. UpTo(at) \subseteq UpTo(other)
    <3>1. ASSUME NEW m \in rows, m <= at PROVE m <= other
      BY <1>1, <1>4, <2>1, <3>1
    <3>2. QED
      BY <3>1
  <2>3. other \in UpTo(other) /\ other \notin UpTo(at)
    BY <1>1, <1>4, <2>1
  <2>4. UpTo(at) # UpTo(other)
    BY <2>3
  <2>. HIDE DEF UpTo
  <2>5. Cardinality(UpTo(at)) <= Cardinality(UpTo(other))
    BY <1>2, <2>2, FS_Subset
  <2>6. Cardinality(UpTo(at)) # Cardinality(UpTo(other))
    BY <1>2, <2>2, <2>4, FS_Subset
  <2>7. QED
    BY <1>2, <2>5, <2>6
<1>. HIDE DEF UpTo
<1>5. QED
  BY <1>1, <1>2, <1>3, <1>4

\* ...and the fewer rows are from it on.
LEMMA FromShrinks ==
    ASSUME NEW rows, rows \subseteq Moments, NEW at \in rows
    PROVE  /\ Cardinality(From(rows, at)) \in 1..Cardinality(rows)
           /\ \A other \in rows :
                at < other => Cardinality(From(rows, other)) < Cardinality(From(rows, at))
<1>1. at \in Nat /\ rows \subseteq Nat /\ IsFiniteSet(rows) /\ Cardinality(rows) \in Nat
  BY RowsAreFew
<1>2. ASSUME NEW m \in rows
      PROVE  /\ IsFiniteSet(From(rows, m))
             /\ Cardinality(From(rows, m)) \in Nat
             /\ Cardinality(From(rows, m)) <= Cardinality(rows)
  BY <1>1, FS_Subset, FS_CardinalityType DEF From
<1>3. Cardinality(From(rows, at)) > 0
  <2>1. at \in From(rows, at)
    BY <1>1 DEF From
  <2>2. QED
    BY <1>2, <2>1, FS_EmptySet
<1>4. ASSUME NEW other \in rows, at < other
      PROVE  Cardinality(From(rows, other)) < Cardinality(From(rows, at))
  <2>1. other \in Nat
    BY <1>1
  <2>2. From(rows, other) \subseteq From(rows, at)
    <3>1. ASSUME NEW m \in rows, m >= other PROVE m >= at
      BY <1>1, <1>4, <2>1, <3>1
    <3>2. QED
      BY <3>1 DEF From
  <2>3. at \in From(rows, at) /\ at \notin From(rows, other)
    BY <1>1, <1>4, <2>1 DEF From
  <2>4. From(rows, at) # From(rows, other)
    BY <2>3
  <2>5. Cardinality(From(rows, other)) <= Cardinality(From(rows, at))
    BY <1>2, <2>2, FS_Subset
  <2>6. Cardinality(From(rows, other)) # Cardinality(From(rows, at))
    BY <1>2, <2>2, <2>4, FS_Subset
  <2>7. QED
    BY <1>2, <2>5, <2>6
<1>5. QED
  BY <1>1, <1>2, <1>3, <1>4

\* One row is the newest: the one whose place is the number of rows.
LEMMA NewestIsThere ==
    ASSUME NEW rows, rows \subseteq Moments, rows # {}
    PROVE  \E at \in rows : \A other \in rows : other <= at
<1>1. PICK n \in Nat : n = Cardinality(rows)
  BY RowsAreFew
<1>2. rows \subseteq Nat /\ n > 0
  BY <1>1, RowsAreFew
<1>3. PICK place : place = [at \in rows |-> Place(rows, at)]
  OBVIOUS
<1>4. ASSUME NEW at \in rows, NEW other \in rows
      PROVE  /\ place[at] \in 1..n
             /\ at < other => place[at] < place[other]
  BY <1>1, <1>3, PlaceGrows
<1>5. place \in Injection(rows, 1..n)
  <2>1. place \in [rows -> 1..n]
    BY <1>3, <1>4
  <2>2. ASSUME NEW at \in rows, NEW other \in rows, at # other PROVE place[at] # place[other]
    <3>1. at \in Nat /\ other \in Nat /\ place[at] \in Nat /\ place[other] \in Nat
      BY <1>2, <1>4
    <3>2. at < other \/ other < at
      BY <2>2, <3>1
    <3>3. place[at] < place[other] \/ place[other] < place[at]
      BY <1>4, <3>2
    <3>4. QED
      BY <3>1, <3>3
  <2>3. QED
    BY <2>1, <2>2 DEF Injection, IsInjective
<1>6. place \in Surjection(rows, 1..n)
  <2>1. IsFiniteSet(1..n) /\ Cardinality(1..n) = n
    BY FS_Interval
  <2>2. QED
    BY <1>1, <1>5, <2>1, FS_Injection
<1>7. PICK at \in rows : place[at] = n
  BY <1>2, <1>6 DEF Surjection
<1>8. ASSUME NEW other \in rows PROVE other <= at
  <2>1. at \in Nat /\ other \in Nat /\ place[other] \in Nat /\ place[other] <= n
    BY <1>2, <1>4
  <2>2. ~ at < other
    BY <1>4, <1>7, <2>1
  <2>3. QED
    BY <2>1, <2>2
<1>9. QED
  BY <1>8

\* The rows of a recent list: the newest is one of them, the others are later than what
\* is left out, and a list of one has only the newest.
LEMMA RecentRows ==
    ASSUME NEW rows, rows \subseteq Moments, NEW n \in Nat \ {0}
    PROVE  /\ rows # {} => \E at \in Recent(rows, n) : \A other \in rows : other <= at
           /\ \A at \in rows \ Recent(rows, n), other \in Recent(rows, n) : at < other
<1>1. rows \subseteq Nat
  BY RowsAreFew
<1>2. ASSUME rows # {}
      PROVE  \E at \in Recent(rows, n) : \A other \in rows : other <= at
  <2>1. PICK at \in rows : \A other \in rows : other <= at
    BY <1>2, NewestIsThere
  <2>2. at \in Nat
    BY <1>1, <2>1
  <2>3. ASSUME NEW other \in rows, other >= at PROVE other = at
    <3>1. other \in Nat /\ other <= at
      BY <1>1, <2>1
    <3>2. QED
      BY <2>2, <2>3, <3>1
  <2>4. From(rows, at) = {at}
    BY <2>1, <2>2, <2>3 DEF From
  <2>5. Cardinality(From(rows, at)) = 1
    BY <2>4, FS_Singleton
  <2>6. QED
    BY <2>1, <2>5 DEF Recent
<1>3. ASSUME NEW at \in rows \ Recent(rows, n), NEW other \in Recent(rows, n)
      PROVE  at < other
  <2>1. at \in rows /\ other \in rows /\ at \in Nat /\ other \in Nat
    BY <1>1 DEF Recent
  <2>2. PICK i \in Nat, j \in Nat : /\ i = Cardinality(From(rows, at))
                                    /\ j = Cardinality(From(rows, other))
    <3>1. Cardinality(rows) \in Nat
      BY RowsAreFew
    <3>2. \A m \in rows : Cardinality(From(rows, m)) \in 1..Cardinality(rows)
      BY FromShrinks
    <3>3. QED
      BY <2>1, <3>1, <3>2
  <2>3. j <= n /\ ~ i <= n
    BY <2>1, <2>2 DEF Recent
  <2>4. CASE other < at
    <3>1. i < j
      BY <2>1, <2>2, <2>4, FromShrinks
    <3>2. QED
      BY <2>3, <3>1
  <2>5. CASE other = at
    BY <2>2, <2>3, <2>5
  <2>6. QED
    BY <2>1, <2>4, <2>5
<1>4. QED
  BY <1>2, <1>3
-----------------------------------------------------------------------------
(* Lemmas about charts *)

LEMMA Division ==
    ASSUME NEW a \in Nat, NEW b \in Nat \ {0}
    PROVE  /\ a \div b \in Nat
           /\ a % b \in 0..(b - 1)
           /\ a = b * (a \div b) + (a % b)
OBVIOUS

LEMMA ProductsInOrder ==
    ASSUME NEW a \in Nat, NEW b \in Nat, NEW c \in Nat, a * b < a * c
    PROVE  b < c
<1>1. SUFFICES ASSUME c <= b PROVE a * c <= a * b
  OBVIOUS
<1>2. PICK d \in Nat : b = c + d
  <2>1. b - c \in Nat /\ b = c + (b - c)
    BY <1>1
  <2>2. QED
    BY <2>1
<1>3. a * b = a * c + a * d /\ a * d \in Nat /\ a * c \in Nat
  BY <1>2
<1>4. QED
  BY <1>3

\* As many strides as the chart has points reach over all rows.
LEMMA StrideIsLong ==
    ASSUME NEW n \in Nat
    PROVE  /\ Stride(n) \in Nat
           /\ n <= Stride(n) * ChartPoints
           /\ n > 0 => Stride(n) > 0
<1>1. PICK c \in Nat \ {0} : c = ChartPoints
  BY HistoryAssumption
<1>2. PICK s : s = (n + c - 1) \div c
  OBVIOUS
<1>3. Stride(n) = s
  BY <1>1, <1>2 DEF Stride
<1>4. n + c - 1 \in Nat
  OBVIOUS
<1>5. PICK r \in 0..(c - 1) : s \in Nat /\ n + c - 1 = c * s + r
  BY <1>2, <1>4, Division
<1>6. PICK p \in Nat : p = c * s
  BY <1>5
<1>7. n <= p
  BY <1>5, <1>6
<1>8. c * s = s * c
  BY <1>5
<1>9. n > 0 => s # 0
  BY <1>6, <1>7
<1>10. QED
  BY <1>1, <1>3, <1>5, <1>6, <1>7, <1>8, <1>9

\* A chart has at most the points it is thinned to, and one.
LEMMA StridedRows ==
    ASSUME NEW rows, rows \subseteq Moments, rows # {}
    PROVE  Cardinality(Strided(rows)) <= ChartPoints
<1>1. PICK n \in Nat : n = Cardinality(rows) /\ n > 0
  BY RowsAreFew
<1>2. PICK s \in Nat \ {0} : s = Stride(n) /\ n <= s * ChartPoints
  BY <1>1, StrideIsLong
<1>3. PICK c \in Nat \ {0} : c = ChartPoints
  BY HistoryAssumption
<1>. DEFINE Nth(at) == (Place(rows, at) - 1) \div s
<1>4. ASSUME NEW at \in Strided(rows)
      PROVE  /\ at \in rows
             /\ Nth(at) \in 0..(c - 1)
             /\ Place(rows, at) - 1 = s * Nth(at)
  <2>1. at \in rows /\ (Place(rows, at) - 1) % s = 0
    BY <1>1, <1>2 DEF Strided
  <2>2. PICK p \in Nat : p = Place(rows, at) - 1 /\ p < n
    <3>1. Place(rows, at) \in 1..n
      BY <1>1, <2>1, PlaceGrows
    <3>2. QED
      BY <3>1
  <2>3. PICK q \in Nat : q = p \div s /\ p = s * q
    <3>1. p \div s \in Nat /\ p = s * (p \div s) + (p % s)
      BY Division
    <3>2. p % s = 0
      BY <2>1, <2>2
    <3>3. s * (p \div s) \in Nat
      BY <3>1
    <3>4. QED
      BY <3>1, <3>2, <3>3
  <2>4. s * q < s * c
    <3>1. s * c \in Nat /\ n <= s * c
      BY <1>2, <1>3
    <3>2. QED
      BY <2>2, <2>3, <3>1
  <2>5. q < c
    BY <2>4, ProductsInOrder
  <2>6. QED
    BY <2>1, <2>2, <2>3, <2>5
<1>5. PICK nth : nth = [at \in Strided(rows) |-> Nth(at)]
  OBVIOUS
<1>6. nth \in Injection(Strided(rows), 0..(c - 1))
  <2>1. nth \in [Strided(rows) -> 0..(c - 1)]
    BY <1>4, <1>5
  <2>2. ASSUME NEW at \in Strided(rows), NEW other \in Strided(rows), nth[at] = nth[other]
        PROVE  at = other
    <3>1. /\ at \in rows /\ other \in rows
          /\ Place(rows, at) - 1 = s * Nth(at)
          /\ Place(rows, other) - 1 = s * Nth(other)
          /\ Nth(at) = Nth(other)
      BY <1>4, <1>5, <2>2
    <3>. HIDE DEF Nth
    <3>2. Place(rows, at) - 1 = Place(rows, other) - 1
      BY <3>1
    <3>3. Place(rows, at) \in 1..n /\ Place(rows, other) \in 1..n
      BY <1>1, <3>1, PlaceGrows
    <3>4. Place(rows, at) = Place(rows, other)
      BY <3>2, <3>3
    <3>5. ~ at < other /\ ~ other < at
      <4>1. at < other => Place(rows, at) < Place(rows, other)
        BY <3>1, PlaceGrows
      <4>2. other < at => Place(rows, other) < Place(rows, at)
        BY <3>1, PlaceGrows
      <4>3. QED
        BY <3>3, <3>4, <4>1, <4>2
    <3>6. at \in Nat /\ other \in Nat
      BY <3>1, RowsAreFew
    <3>7. QED
      BY <3>5, <3>6
  <2>3. QED
    BY <2>1, <2>2 DEF Injection, IsInjective
<1>7. IsFiniteSet(0..(c - 1)) /\ Cardinality(0..(c - 1)) = c
  BY FS_Interval
<1>8. QED
  BY <1>3, <1>6, <1>7, FS_Injection

LEMMA NewestAlone ==
    ASSUME NEW rows, rows \subseteq Moments, rows # {}
    PROVE  \E at \in rows : Recent(rows, 1) = {at} /\ \A other \in rows : other <= at
<1>1. PICK at \in Recent(rows, 1) : \A other \in rows : other <= at
  BY RecentRows
<1>2. at \in rows /\ rows \subseteq Nat
  BY <1>1, RowsAreFew DEF Recent
<1>3. ASSUME NEW m \in Recent(rows, 1) PROVE m = at
  <2>1. m \in rows /\ m \in Nat /\ at \in Nat /\ m <= at
    BY <1>1, <1>2, <1>3 DEF Recent
  <2>2. PICK i \in Nat, j \in Nat : /\ i = Cardinality(From(rows, at)) /\ i > 0
                                    /\ j = Cardinality(From(rows, m))
    <3>1. Cardinality(rows) \in Nat
      BY RowsAreFew
    <3>2. \A k \in rows : Cardinality(From(rows, k)) \in 1..Cardinality(rows)
      BY FromShrinks
    <3>3. QED
      BY <1>2, <2>1, <3>1, <3>2
  <2>3. j <= 1
    BY <1>3, <2>2 DEF Recent
  <2>4. m < at => i < j
    BY <1>2, <2>1, <2>2, FromShrinks
  <2>5. QED
    BY <2>1, <2>2, <2>3, <2>4
<1>4. QED
  BY <1>1, <1>2, <1>3

LEMMA ThinnedChart ==
    ASSUME NEW rows, rows \subseteq Moments
    PROVE  /\ DownsampleMetrics(rows) \subseteq rows
           /\ Cardinality(DownsampleMetrics(rows)) <= ChartPoints + 1
           /\ Cardinality(rows) <= ChartPoints => DownsampleMetrics(rows) = rows
           /\ rows # {} => Ends(DownsampleMetrics(rows), rows)
<1>1. PICK c \in Nat \ {0} : c = ChartPoints
  BY HistoryAssumption
<1>2. PICK n \in Nat : n = Cardinality(rows) /\ (rows = {} <=> n = 0)
  BY RowsAreFew
<1>3. CASE n <= c
  <2>1. DownsampleMetrics(rows) = rows
    BY <1>1, <1>2, <1>3 DEF DownsampleMetrics
  <2>2. rows # {} => Ends(rows, rows)
    BY NewestIsThere DEF Ends
  <2>3. n <= c + 1
    BY <1>3
  <2>4. QED
    BY <1>1, <1>2, <2>1, <2>2, <2>3
<1>4. CASE ~ n <= c
  <2>1. rows # {} /\ n > c
    BY <1>2, <1>4
  <2>2. PICK at \in rows : Recent(rows, 1) = {at} /\ \A other \in rows : other <= at
    BY <2>1, NewestAlone
  <2>3. DownsampleMetrics(rows) = Strided(rows) \cup {at}
    BY <1>1, <1>2, <1>4, <2>2 DEF DownsampleMetrics
  <2>4. Strided(rows) \subseteq rows
    BY DEF Strided
  <2>5. PICK k \in Nat : k = Cardinality(Strided(rows)) /\ k <= c
    <3>1. Strided(rows) \subseteq Moments
      BY <2>4
    <3>2. Cardinality(Strided(rows)) \in Nat
      BY <3>1, RowsAreFew
    <3>3. QED
      BY <1>1, <2>1, <3>2, StridedRows
  <2>6. Cardinality(Strided(rows) \cup {at}) \in {k, k + 1}
    <3>1. IsFiniteSet(Strided(rows))
      BY <2>4, RowsAreFew
    <3>2. QED
      BY <2>5, <3>1, FS_AddElement
  <2>7. Cardinality(Strided(rows) \cup {at}) <= c + 1
    BY <2>5, <2>6
  <2>8. Ends(Strided(rows) \cup {at}, rows)
    BY <2>2 DEF Ends
  <2>9. QED
    BY <1>1, <1>2, <1>4, <2>2, <2>3, <2>4, <2>7, <2>8
<1>5. QED
  BY <1>3, <1>4

\* What a chart tells follows from the rows alone.
LEMMA ChartsTell ==
    ASSUME HistoryTypeOK, NEW window \in Windows
    PROVE  ChartTells(window)
<1>1. PICK all : all = Drawn(window)
  OBVIOUS
<1>2. all \subseteq Moments
  BY <1>1 DEF HistoryTypeOK, Drawn, From
<1>3. PICK n \in Nat : n = Cardinality(all) /\ (all = {} <=> n = 0)
  BY <1>2, RowsAreFew
<1>4. PICK read : read = {at \in all : Place(all, at) <= RangeCap}
  OBVIOUS
<1>5. Chart(window) = DownsampleMetrics(read) /\ read \subseteq all
  BY <1>1, <1>4 DEF Chart, RangeOf, Drawn
<1>6. PICK cap \in Nat \ {0}, c \in Nat \ {0} : cap = RangeCap /\ c = ChartPoints /\ c <= cap
  BY HistoryAssumption
<1>7. n <= cap => read = all
  <2>1. ASSUME n <= cap, NEW at \in all PROVE Place(all, at) <= RangeCap
    <3>1. Place(all, at) \in 1..n
      BY <1>2, <1>3, PlaceGrows
    <3>2. QED
      BY <1>6, <2>1, <3>1
  <2>2. QED
    BY <1>4, <2>1
<1>8. read \subseteq Moments
  BY <1>2, <1>5
<1>9. DownsampleMetrics(read) \subseteq all /\ Cardinality(DownsampleMetrics(read)) <= c + 1
  BY <1>5, <1>6, <1>8, ThinnedChart
<1>10. n <= c => DownsampleMetrics(read) = all
  <2>1. n <= c => n <= cap
    BY <1>6
  <2>2. QED
    BY <1>3, <1>6, <1>7, <1>8, <2>1, ThinnedChart
<1>11. n \in 1..cap => Ends(DownsampleMetrics(read), all)
  <2>1. n \in 1..cap => n <= cap /\ n # 0
    OBVIOUS
  <2>2. QED
    BY <1>3, <1>7, <1>8, <2>1, ThinnedChart
<1>12. QED
  BY <1>1, <1>3, <1>5, <1>6, <1>9, <1>10, <1>11 DEF ChartTells

-----------------------------------------------------------------------------
(* The history of a server.  Besides the types: a check is kept until it is older     *)
(* than the retention; none that is kept is older than what the server's row tells of, *)
(* unless all are gone; the checks of an open count are those it began with and those  *)
(* recorded since.                                                                   *)

HistoryInv ==
    /\ HistoryTypeOK
    /\ beats \subseteq checked
    /\ \A at \in checked : at <= now
    /\ \A at \in checked : Retention < 0 \/ at >= now - Retention => at \in beats
    /\ pass = "stamp" => now \in beats
    /\ lastBeat <= now
    /\ beats # {} => \E at \in beats : at >= lastBeat
    /\ uptime.at = "healthy" =>
         Cardinality(From(beats, uptime.since)) <= uptime.total + meanwhile

\* The lists of recent rows.
LEMMA RecentListsTell ==
    ASSUME HistoryInv, NEW limit \in RowLimits
    PROVE  ListsTell(limit)
<1>1. samples \subseteq Moments /\ beats \subseteq Moments /\ lastBeat \in Moments \cup {Never}
  BY DEF HistoryInv, HistoryTypeOK
<1>2. Clamp(limit, MostBeats) \in Nat \ {0} /\ Clamp(limit, MostSamples) \in Nat \ {0}
  BY HistoryAssumption DEF Clamp
<1>3. samples # {} => RecentSamples(limit) # {}
  BY <1>1, <1>2, RecentRows DEF RecentSamples
<1>4. \A at \in samples \ RecentSamples(limit), other \in RecentSamples(limit) : at < other
  BY <1>1, <1>2, RecentRows DEF RecentSamples
<1>5. ASSUME beats # {} PROVE \E at \in RecentBeats(limit) : at >= lastBeat
  <2>1. PICK at \in Recent(beats, Clamp(limit, MostBeats)) : \A other \in beats : other <= at
    BY <1>1, <1>2, <1>5, RecentRows
  <2>2. PICK m \in beats : m >= lastBeat
    BY <1>5 DEF HistoryInv
  <2>3. m <= at /\ m \in Nat /\ at \in Nat /\ lastBeat \in Int
    <3>1. at \in beats /\ beats \subseteq Nat
      BY <1>1, <2>1, RowsAreFew DEF Recent
    <3>2. QED
      BY <1>1, <2>1, <2>2, <3>1, RowsAreFew DEF Moments, Never
  <2>4. at >= lastBeat
    BY <2>2, <2>3
  <2>5. QED
    BY <2>1, <2>4 DEF RecentBeats
<1>6. QED
  BY <1>3, <1>4, <1>5 DEF ListsTell

LEMMA UptimesTell == HistoryInv => UptimeTells
<1>1. ASSUME HistoryInv, NEW window \in Windows, CountTotal(window),
             Retention < 0 \/ window <= Retention
      PROVE  uptime'.total = Cardinality(From(checked, now - window))
  <2>1. PICK since \in Int : since = now - window
    BY <1>1, HistoryAssumption DEF HistoryInv, HistoryTypeOK, Moments
  <2>2. uptime'.total = Cardinality(From(beats, since))
    BY <1>1, <2>1 DEF CountTotal
  <2>3. ASSUME NEW at \in checked, at >= since PROVE at \in beats
    <3>1. /\ at \in Int /\ now \in Int /\ Retention \in Int /\ window \in Int
          /\ Retention < 0 \/ at >= now - Retention => at \in beats
      BY <1>1, HistoryAssumption DEF HistoryInv, HistoryTypeOK, Moments
    <3>2. Retention < 0 \/ at >= now - Retention
      BY <1>1, <2>1, <2>3, <3>1
    <3>3. QED
      BY <3>1, <3>2
  <2>4. From(beats, since) = From(checked, since)
    BY <1>1, <2>3 DEF HistoryInv, From
  <2>5. QED
    BY <2>1, <2>2, <2>4
<1>2. ASSUME HistoryInv, CountHealthy
      PROVE  uptime'.healthy <= uptime'.total + meanwhile
  <2>1. uptime \in Uptime /\ uptime.at = "healthy"
    BY <1>2 DEF HistoryInv, HistoryTypeOK, CountHealthy, NoUptime
  <2>2. PICK since \in Int, total \in Nat : since = uptime.since /\ total = uptime.total
    BY <2>1 DEF Uptime
  <2>3. /\ uptime'.total = total
        /\ uptime'.healthy = IF total = 0 THEN 0 ELSE Cardinality(From(sound, since))
    BY <1>2, <2>1, <2>2 DEF CountHealthy, Uptime
  <2>4. beats \subseteq Moments /\ sound \subseteq beats /\ meanwhile \in Nat
    BY <1>2 DEF HistoryInv, HistoryTypeOK
  <2>5. PICK kept : kept = From(beats, since)
    OBVIOUS
  <2>6. From(sound, since) \subseteq kept /\ kept \subseteq Moments
    BY <2>4, <2>5 DEF From
  <2>7. PICK i \in Nat, j \in Nat : /\ i = Cardinality(From(sound, since))
                                    /\ j = Cardinality(kept)
                                    /\ i <= j
    <3>1. IsFiniteSet(kept) /\ Cardinality(kept) \in Nat
      BY <2>6, RowsAreFew
    <3>2. /\ Cardinality(From(sound, since)) <= Cardinality(kept)
          /\ Cardinality(From(sound, since)) \in Nat
      BY <2>6, <3>1, FS_Subset, FS_CardinalityType
    <3>3. QED
      BY <3>1, <3>2
  <2>8. j <= total + meanwhile
    BY <1>2, <2>1, <2>2, <2>5, <2>7 DEF HistoryInv
  <2>9. QED
    BY <2>3, <2>4, <2>7, <2>8
<1>3. QED
  BY <1>1, <1>2 DEF UptimeTells

-----------------------------------------------------------------------------
(* Every step keeps HistoryInv *)

LEMMA RecordCheckInv ==
    ASSUME HistoryInv, NEW healthy \in BOOLEAN, RecordCheck(healthy)
    PROVE  HistoryInv'
<1>1. PICK t \in Nat : t = now /\ t \in Moments /\ now' = t
  BY ClockAssumption DEF HistoryInv, HistoryTypeOK, Moments, RecordCheck
<1>2. PICK B, C : B = beats \cup {t} /\ C = checked \cup {t} /\ beats' = B /\ checked' = C
  BY <1>1 DEF RecordCheck
<1>3. /\ B \subseteq C /\ B \subseteq Moments /\ C \subseteq Moments
      /\ \A at \in C : at <= t
      /\ \A at \in C : Retention < 0 \/ at >= t - Retention => at \in B
      /\ t \in B
  BY <1>1, <1>2 DEF HistoryInv, HistoryTypeOK
<1>4. HistoryTypeOK'
  <2>1. sound' \subseteq B
    BY <1>1, <1>2 DEF HistoryInv, HistoryTypeOK, RecordCheck
  <2>2. meanwhile' \in Nat
    BY DEF HistoryInv, HistoryTypeOK, RecordCheck
  <2>3. QED
    BY <1>1, <1>2, <1>3, <2>1, <2>2 DEF HistoryInv, HistoryTypeOK, RecordCheck
<1>5. \E at \in B : at >= lastBeat
  BY <1>1, <1>3 DEF HistoryInv
<1>6. ASSUME uptime.at = "healthy"
      PROVE  Cardinality(From(B, uptime.since)) <= uptime.total + (meanwhile + 1)
  <2>1. uptime \in Uptime
    BY <1>6 DEF HistoryInv, HistoryTypeOK, NoUptime
  <2>2. PICK since \in Int, total \in Nat, m \in Nat :
          since = uptime.since /\ total = uptime.total /\ m = meanwhile
    BY <2>1 DEF Uptime, HistoryInv, HistoryTypeOK
  <2>3. PICK kept : kept = From(beats, since)
    OBVIOUS
  <2>4. kept \subseteq Moments
    BY <2>3 DEF HistoryInv, HistoryTypeOK, From
  <2>5. PICK k \in Nat : k = Cardinality(kept) /\ k <= total + m
    BY <1>6, <2>2, <2>3, <2>4, RowsAreFew DEF HistoryInv
  <2>6. From(B, since) = kept \/ From(B, since) = kept \cup {t}
    BY <1>2, <2>3 DEF From
  <2>7. Cardinality(kept \cup {t}) \in {k, k + 1}
    <3>1. IsFiniteSet(kept)
      BY <2>4, RowsAreFew
    <3>2. QED
      BY <2>5, <3>1, FS_AddElement
  <2>8. Cardinality(From(B, since)) \in {k, k + 1}
    BY <2>5, <2>6, <2>7
  <2>9. QED
    BY <2>2, <2>5, <2>8
<1>7. QED
  BY <1>1, <1>2, <1>3, <1>4, <1>5, <1>6 DEF HistoryInv, RecordCheck

LEMMA StampServerInv ==
    ASSUME HistoryInv, StampServer
    PROVE  HistoryInv'
<1>1. HistoryTypeOK'
  BY DEF HistoryInv, HistoryTypeOK, StampServer, Moments
<1>2. now \in Nat
  BY ClockAssumption DEF HistoryInv, HistoryTypeOK, Moments
<1>3. QED
  BY <1>1, <1>2 DEF HistoryInv, StampServer

LEMMA RecordMetricsInv ==
    ASSUME HistoryInv, RecordMetrics
    PROVE  HistoryInv'
BY DEF HistoryInv, HistoryTypeOK, RecordMetrics

LEMMA PruneHistoryInv ==
    ASSUME HistoryInv, PruneHistory
    PROVE  HistoryInv'
<1>1. PICK t \in Nat, s \in Int : /\ t = now /\ now' = t
                                  /\ s = t - Retention
  BY ClockAssumption, HistoryAssumption DEF HistoryInv, HistoryTypeOK, Moments, PruneHistory
<1>2. PICK B : B = From(beats, s) /\ beats' = B
  BY <1>1 DEF PruneHistory
<1>3. B \subseteq beats
  BY <1>2 DEF From
<1>4. HistoryTypeOK'
  <2>1. sound' \subseteq B
    BY <1>1, <1>2 DEF HistoryInv, HistoryTypeOK, PruneHistory, From
  <2>2. samples' \subseteq samples
    BY DEF PruneHistory, From
  <2>3. QED
    BY <1>2, <1>3, <2>1, <2>2 DEF HistoryInv, HistoryTypeOK, PruneHistory
<1>5. ASSUME NEW at \in checked, Retention < 0 \/ at >= t - Retention PROVE at \in B
  <2>1. at \in beats
    BY <1>1, <1>5 DEF HistoryInv
  <2>2. at >= s
    BY <1>1, <1>5, HistoryAssumption DEF PruneHistory
  <2>3. QED
    BY <1>2, <2>1, <2>2 DEF From
<1>6. ASSUME B # {} PROVE \E at \in B : at >= lastBeat
  <2>1. PICK m \in beats : m >= lastBeat
    BY <1>3, <1>6 DEF HistoryInv
  <2>2. PICK at \in B : TRUE
    BY <1>6
  <2>3. m \in Nat /\ at \in Nat /\ lastBeat \in Int
    BY <1>3, <2>1, <2>2, RowsAreFew DEF HistoryInv, HistoryTypeOK, Moments, Never
  <2>4. CASE m >= s
    BY <1>2, <2>1, <2>4 DEF From
  <2>5. CASE ~ m >= s
    <3>1. at >= s
      BY <1>2, <2>2 DEF From
    <3>2. at >= lastBeat
      BY <1>1, <2>1, <2>3, <2>5, <3>1
    <3>3. QED
      BY <2>2, <3>2
  <2>6. QED
    BY <2>4, <2>5
<1>7. ASSUME uptime.at = "healthy"
      PROVE  Cardinality(From(B, uptime.since)) <= uptime.total + meanwhile
  <2>1. uptime \in Uptime
    BY <1>7 DEF HistoryInv, HistoryTypeOK, NoUptime
  <2>2. PICK since \in Int, total \in Nat, m \in Nat :
          since = uptime.since /\ total = uptime.total /\ m = meanwhile
    BY <2>1 DEF Uptime, HistoryInv, HistoryTypeOK
  <2>3. PICK kept : kept = From(beats, since)
    OBVIOUS
  <2>4. kept \subseteq Moments /\ From(B, since) \subseteq kept
    BY <1>3, <2>3 DEF HistoryInv, HistoryTypeOK, From
  <2>5. PICK k \in Nat : k = Cardinality(kept) /\ k <= total + m
    BY <1>7, <2>2, <2>3, <2>4, RowsAreFew DEF HistoryInv
  <2>6. Cardinality(From(B, since)) <= k /\ Cardinality(From(B, since)) \in Nat
    <3>1. IsFiniteSet(kept)
      BY <2>4, RowsAreFew
    <3>2. QED
      BY <2>4, <2>5, <3>1, FS_Subset, FS_CardinalityType
  <2>7. QED
    BY <2>2, <2>5, <2>6
<1>8. QED
  BY <1>1, <1>2, <1>3, <1>4, <1>5, <1>6, <1>7 DEF HistoryInv, PruneHistory

LEMMA CountTotalInv ==
    ASSUME HistoryInv, NEW window \in Windows, CountTotal(window)
    PROVE  HistoryInv'
<1>1. PICK since \in Int : since = now - window
  BY HistoryAssumption DEF HistoryInv, HistoryTypeOK, Moments
<1>2. PICK kept : kept = From(beats, since)
  OBVIOUS
<1>3. PICK k \in Nat : k = Cardinality(kept)
  <2>1. kept \subseteq Moments
    BY <1>2 DEF HistoryInv, HistoryTypeOK, From
  <2>2. QED
    BY <2>1, RowsAreFew
<1>4. uptime' = [at |-> "healthy", since |-> since, total |-> k, healthy |-> 0]
  BY <1>1, <1>2, <1>3 DEF CountTotal
<1>5. uptime' \in Uptime
  BY <1>4 DEF Uptime
<1>6. HistoryTypeOK'
  BY <1>5 DEF HistoryInv, HistoryTypeOK, CountTotal
<1>7. Cardinality(From(beats, uptime'.since)) <= uptime'.total + meanwhile'
  <2>1. uptime'.since = since /\ uptime'.total = k /\ meanwhile' = 0
    BY <1>4 DEF CountTotal
  <2>2. QED
    BY <1>2, <1>3, <2>1
<1>8. QED
  BY <1>6, <1>7 DEF HistoryInv, CountTotal

LEMMA CountHealthyInv ==
    ASSUME HistoryInv, CountHealthy
    PROVE  HistoryInv'
<1>1. uptime \in Uptime
  BY DEF HistoryInv, HistoryTypeOK, CountHealthy, NoUptime
<1>2. PICK healthy : /\ uptime' = [uptime EXCEPT !.at = "told", !.healthy = healthy]
                     /\ healthy = IF uptime.total = 0 THEN 0
                                  ELSE Cardinality(From(sound, uptime.since))
  BY DEF CountHealthy
<1>3. healthy \in Nat
  <2>1. From(sound, uptime.since) \subseteq Moments
    BY DEF HistoryInv, HistoryTypeOK, From
  <2>2. QED
    BY <1>2, <2>1, RowsAreFew
<1>4. uptime' \in Uptime /\ uptime'.at = "told"
  BY <1>1, <1>2, <1>3 DEF Uptime
<1>5. HistoryTypeOK'
  BY <1>4 DEF HistoryInv, HistoryTypeOK, CountHealthy
<1>6. QED
  BY <1>4, <1>5 DEF HistoryInv, CountHealthy

LEMMA HistoryRestartInv ==
    ASSUME HistoryInv, HistoryRestart
    PROVE  HistoryInv'
BY DEF HistoryInv, HistoryTypeOK, HistoryRestart, NoUptime

LEMMA HistoryTickInv ==
    ASSUME HistoryInv, HistoryTick
    PROVE  HistoryInv'
<1>1. PICK t \in Nat : t = now /\ now' = t + 1 /\ t + 1 \in Moments
  BY ClockAssumption DEF HistoryInv, HistoryTypeOK, Moments, HistoryTick, Tick
<1>2. HistoryTypeOK'
  BY <1>1 DEF HistoryInv, HistoryTypeOK, HistoryTick
<1>3. checked \subseteq Nat /\ lastBeat \in Int /\ Retention \in Int
  BY HistoryAssumption, RowsAreFew DEF HistoryInv, HistoryTypeOK, Moments, Never
<1>4. /\ \A at \in checked : at <= t + 1
      /\ \A at \in checked : Retention < 0 \/ at >= (t + 1) - Retention => at \in beats
  <2>1. ASSUME NEW at \in checked PROVE at <= t + 1
    BY <1>1, <1>3 DEF HistoryInv
  <2>2. ASSUME NEW at \in checked, Retention < 0 \/ at >= (t + 1) - Retention PROVE at \in beats
    <3>1. at \in Nat /\ (Retention < 0 \/ at >= t - Retention => at \in beats)
      BY <1>1, <1>3 DEF HistoryInv
    <3>2. Retention < 0 \/ at >= t - Retention
      BY <1>3, <2>2, <3>1
    <3>3. QED
      BY <3>1, <3>2
  <2>3. QED
    BY <2>1, <2>2
<1>5. lastBeat <= t + 1
  BY <1>1, <1>3 DEF HistoryInv
<1>6. QED
  BY <1>1, <1>2, <1>4, <1>5 DEF HistoryInv, HistoryTick

LEMMA HistoryInitInv == HistoryInit => HistoryInv
<1>1. SUFFICES ASSUME HistoryInit PROVE HistoryInv
  OBVIOUS
<1>2. HistoryTypeOK
  <2>1. 0 \in Moments
    BY ClockAssumption DEF Moments
  <2>2. QED
    BY <1>1, <2>1 DEF HistoryInit, HistoryTypeOK
<1>3. lastBeat <= now
  BY <1>1 DEF HistoryInit, Never
<1>4. QED
  BY <1>1, <1>2, <1>3 DEF HistoryInit, HistoryInv, NoUptime

-----------------------------------------------------------------------------
(* Theorems about the history of a server *)

\* What is kept of a server's history is what was recorded, up to the retention, while
\* checks go on, old rows are pruned and the process restarts.
THEOREM HistoryInvariant == HistorySpec => []HistoryInv
<1>1. HistoryInv /\ [HistoryNext]_historyVars => HistoryInv'
  <2> SUFFICES ASSUME HistoryInv, [HistoryNext]_historyVars PROVE HistoryInv'
    OBVIOUS
  <2>1. CASE UNCHANGED historyVars
    BY <2>1 DEF historyVars, HistoryInv, HistoryTypeOK
  <2>2. CASE HistoryNext
    BY <2>2, RecordCheckInv, StampServerInv, RecordMetricsInv, PruneHistoryInv, CountTotalInv,
       CountHealthyInv, HistoryRestartInv, HistoryTickInv DEF HistoryNext
  <2>3. QED
    BY <2>1, <2>2
<1>2. QED
  BY HistoryInitInv, <1>1, PTL DEF HistorySpec

\* The tables, the pass and the count keep their types.
THEOREM HistoryTypeCorrect == HistorySpec => []HistoryTypeOK
<1>1. HistoryInv => HistoryTypeOK
  BY DEF HistoryInv
<1>2. QED
  BY HistoryInvariant, <1>1, PTL

\* Charts, lists and uptimes tell of what was recorded, for any retention, window, limit
\* and number of points.
THEOREM HistoryToldHolds == HistorySpec => HistoryTold
<1>1. HistoryInv => \A window \in Windows : ChartTells(window)
  BY ChartsTell DEF HistoryInv
<1>2. HistoryInv => \A limit \in RowLimits : ListsTell(limit)
  BY RecentListsTell
<1>3. HistoryInv /\ [HistoryNext]_historyVars => [UptimeTells]_historyVars
  BY UptimesTell
<1>4. QED
  BY HistoryInvariant, <1>1, <1>2, <1>3, PTL DEF HistorySpec, HistoryTold

-----------------------------------------------------------------------------
(* The parts together *)

\* Each part runs as it does alone, whichever the others are doing.
THEOREM UpkeepPartsHold == Spec => AccessSpec /\ HistorySpec /\ UpdateSpec /\ StartupSpec
<1>1. Init => AccessInit /\ HistoryInit /\ UpdateInit /\ StartupInit
  BY DEF Init
<1>2. [Next]_vars => [AccessNext]_accessVars
  BY DEF Next, vars, accessVars
<1>3. [Next]_vars => [HistoryNext]_historyVars
  BY DEF Next, vars, historyVars
<1>4. [Next]_vars => [UpdateNext]_updateVars
  BY DEF Next, vars, updateVars
<1>5. [Next]_vars => [StartupNext]_startupVars
  BY DEF Next, vars, startupVars
<1>6. QED
  BY <1>1, <1>2, <1>3, <1>4, <1>5, PTL
     DEF Spec, AccessSpec, HistorySpec, UpdateSpec, StartupSpec

\* The types of the four parts, in the composition the run checks.
THEOREM UpkeepTypeCorrect == Spec => []TypeOK
<1>1. AccessTypeOK /\ HistoryTypeOK /\ UpdateTypeOK /\ StartupTypeOK => TypeOK
  BY DEF TypeOK
<1>2. QED
  BY UpkeepPartsHold, AccessTypeCorrect, HistoryTypeCorrect, UpdateTypeCorrect,
     StartupTypeCorrect, <1>1, PTL
=============================================================================
