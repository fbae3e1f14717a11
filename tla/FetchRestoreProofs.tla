------------------------- MODULE FetchRestoreProofs -------------------------
(***************************************************************************)
(* Proofs about the way of a backup from the store into the engine, for    *)
(* every set of names, objects, source configurations and formats, and for *)
(* any number of writes to the store meanwhile.                            *)
(***************************************************************************)
EXTENDS FetchRestore, WellFoundedInduction, TLAPS

-----------------------------------------------------------------------------
(* The inductive invariant, part by part.                                  *)

\* An object is open.
Reading == pc \in {"decrypt", "decompress", "layers", "copy", "spool"}

\* Fetch has returned a Backup.
Returned == pc \in {"ok", "cleaned"}

\* Where Fetch is and what it has by then.
PlaceInv ==
    /\ pc = "read" => from.type = "file"
    /\ Reading \/ (Returned /\ backup.path = "tmp") => opened \in Versions

\* The temp file is there only while it is written and while the Backup points
\* to it, and Cleanup knows of it and of nothing else.
TmpInv ==
    /\ pc \notin {"copy", "spool", "ok"} => tmp = -1
    /\ pc = "ok" => \/ backup.path = "tmp" /\ backup.cleanup = "tmp"
                    \/ backup.path = "source" /\ tmp = -1
    /\ backup.cleanup # "source"

\* Nothing is dated in the future, and what is stored under a name only gets
\* newer: neither the file that is opened nor the one in place is older than
\* Stat said.
AgeInv ==
    /\ \A k \in Keys : Exists(k) => store[k].mod <= now
    /\ fi.mod <= now
    /\ from.type = "file" /\ (pc = "read" \/ Reading \/ Returned)
         => (Exists(key) => fi.mod <= store[key].mod)
    /\ from.type = "file" /\ (Reading \/ (Returned /\ backup.path = "tmp"))
         => fi.mod <= opened.mod

\* The store dates what it hands out.
Dated == from.type = "file" \/ HasLastModified

\* What the Backup claims, and what the driver has opened.
ClaimInv ==
    /\ Returned /\ backup.path = "source" => from.type = "file" /\ backup.modTime = fi.mod
    /\ Returned /\ backup.path = "tmp" /\ Dated => backup.modTime <= opened.mod
    /\ input # NoInput => Returned
    /\ input # NoInput /\ Dated => backup.modTime <= input.mod

\* The spec's limit fits into the program's arithmetic.
LimitFits == PlainCap < IntMax

\* A stream that is whole has been decrypted with what it was encrypted with and
\* was not over the cap on the transfer; and a whole stream is what is copied.
BodyInv ==
    /\ Reading /\ from.type = "s3" /\ TooLarge(opened.stored) => body = "broken"
    /\ pc \in {"decompress", "layers", "copy"} /\ body = "whole" => enc = opened.enc
    /\ LimitFits /\ PlainCap > 0 => tmp <= PlainCap + 1
    /\ LimitFits /\ pc = "ok" /\ backup.path = "tmp" =>
         /\ tmp = opened.plain
         /\ enc = opened.enc
         /\ PlainCap > 0 => tmp <= PlainCap
         /\ from.type = "s3" => ~TooLarge(opened.stored)

\* The best so far is at least as new as every name that was looked at and not
\* touched since, and what replaced it is newer still.
ListInv ==
    /\ \A k \in untouched : k \notin todo /\ Candidate(k) => store[k].mod <= newest.mod
    /\ newest.mod <= now
    /\ newest # NoKey /\ Exists(newest.key) => newest.mod <= store[newest.key].mod
    /\ pc = "start" => newest = NoKey

\* What was selected is what is fetched, and the date it is given is not older.
ChosenInv ==
    from.select /\ pc \notin {"start", "list", "failed"} =>
        /\ todo = {} /\ newest # NoKey /\ key = newest.key
        /\ from.type = "file" /\ pc # "open" => newest.mod <= fi.mod
        /\ Reading => newest.mod <= opened.mod
        /\ Returned => newest.mod <= backup.modTime

FetchInv == PlaceInv /\ TmpInv /\ AgeInv /\ ClaimInv /\ BodyInv /\ ListInv /\ ChosenInv

\* A FATAL line that is not a transient one says what became of the server.
LinesAreTrue(lines, server) ==
    /\ "fatal" \in lines => server = "dead"
    /\ "refused" \in lines => server = "refusing"

\* How far Restore has come and what that says of the engine.
EngineInv ==
    /\ startAt <= now
    /\ rpc \in {"idle", "preflight", "open", "config", "exec", "untar", "prepare", "start"}
         => cluster = "cold" /\ log = {}
    /\ rpc \in {"config", "exec"} => format # "basebackup"
    /\ rpc \in {"untar", "prepare", "start", "poll", "grep"} => format = "basebackup"
    /\ LinesAreTrue(log, cluster)
    /\ res.step = "startup" => cluster \in {"dead", "refusing"} /\ rpc = "done"
    /\ RestoredMeansServing

IInv == TypeOK /\ FetchInv /\ EngineInv

-----------------------------------------------------------------------------
(* The operators of the model.                                             *)

\* The next name of the listing is one that is still to be looked at.
LEMMA MinIn ==
    ASSUME NEW S \in SUBSET Nat, S # {}
    PROVE  Min(S) \in S
<1> DEFINE R == {ss \in Nat \X Nat : ss[1] < ss[2]}
<1>1. IsWellFoundedOn(R, Nat)
  BY NatLessThanWellFounded DEF OpToRel
<1> HIDE DEF R
<1>2. PICK x \in S : \A y \in S : ~(<<y, x>> \in R)
  BY <1>1, WFMin
<1>3. ASSUME NEW y \in S PROVE x =< y
  <2>1. x \in Nat /\ y \in Nat /\ <<y, x>> \in Nat \X Nat
    OBVIOUS
  <2>2. y < x => <<y, x>> \in R
    BY <2>1, <<y, x>>[1] = y, <<y, x>>[2] = x DEF R
  <2> QED
    BY <1>2, <2>1, <2>2
<1> QED
  BY <1>3 DEF Min

\* int64 arithmetic stays within the integers and is exact up to IntMax.
LEMMA WrapFits ==
    /\ \A x \in Int : Wrap(x) \in Int
    /\ \A x \in Nat : x <= IntMax => Wrap(x) = x
<1> DEFINE M == IntMax + 1
<1>1. M \in Nat \ {0}
  BY SourceAssumption
<1>2. \A x \in Int : (x + M) % (2 * M) \in Int
  BY <1>1
<1>3. ASSUME NEW x \in Nat, x <= IntMax PROVE (x + M) % (2 * M) = x + M
  <2>1. x + M \in Nat /\ 2 * M \in Nat \ {0} /\ x + M < 2 * M
    BY <1>1, <1>3, SourceAssumption
  <2>2. \A a \in Nat, b \in Nat \ {0} : a < b => a % b = a
    OBVIOUS
  <2> QED
    BY <2>1, <2>2
<1>4. \A x \in Int : Wrap(x) = ((x + M) % (2 * M)) - M
  BY SourceAssumption DEF Wrap
<1> QED
  BY <1>1, <1>2, <1>3, <1>4

\* The fields of the configuration.
LEMMA FromType ==
    ASSUME from \in Froms
    PROVE  /\ from.type \in {"file", "s3"} /\ from.uri \in Keys /\ from.select \in BOOLEAN
           /\ from.maxBytes \in Int /\ from.maxUncompressed \in Int /\ from.decrypt \in Layers
BY SourceAssumption

\* A stored version is not the absence of one.
LEMMA VersionFacts ==
    /\ NoObject \notin Versions /\ NoObject = NoInput
    /\ \A v \in Versions : v.mod \in Nat /\ v.stored \in Nat /\ v.plain \in Nat
                           /\ v.enc \in Layers /\ v.comp \in BOOLEAN
    /\ \A b \in Objects, t \in Nat : VersionOf(b, t) \in Versions /\ VersionOf(b, t).mod = t
<1>1. NoObject.mod = -1 /\ \A v \in Versions : v.mod \in Nat
  BY DEF NoObject, Versions
<1>2. NoObject \notin Versions
  BY <1>1
<1>3. NoObject = NoInput
  BY DEF NoObject, NoInput
<1>4. \A v \in Versions : v.mod \in Nat /\ v.stored \in Nat /\ v.plain \in Nat
                           /\ v.enc \in Layers /\ v.comp \in BOOLEAN
  BY DEF Versions
<1>5. ASSUME NEW b \in Objects, NEW t \in Nat
      PROVE  VersionOf(b, t) \in Versions /\ VersionOf(b, t).mod = t
  BY SourceAssumption DEF VersionOf, Versions
<1> QED
  BY <1>2, <1>3, <1>4, <1>5

\* The limit the program computes is the documented one if it fits.
LEMMA LimitIsCap ==
    ASSUME from \in Froms
    PROVE  /\ uncompressedLimit \in Int
           /\ PlainCap \in Int
           /\ LimitFits /\ PlainCap > 0 => uncompressedLimit = PlainCap
           /\ LimitFits /\ uncompressedLimit > 0 => uncompressedLimit = PlainCap
<1>1. from.maxBytes \in Int /\ from.maxUncompressed \in Int /\ Factor \in Nat /\ IntMax \in Nat
  BY FromType, SourceAssumption
<1> DEFINE x == from.maxBytes * Factor
<1>2. x \in Int /\ (from.maxBytes > 0 => x >= 0) /\ (from.maxBytes <= 0 => x <= 0)
  <2>1. \A a \in Int, b \in Nat : a * b \in Int /\ (a > 0 => a * b >= 0) /\ (a <= 0 => a * b <= 0)
    OBVIOUS
  <2> QED
    BY <1>1, <2>1
<1>3. PlainCap = IF from.maxUncompressed > 0 THEN from.maxUncompressed ELSE x
  BY DEF PlainCap
<1> HIDE DEF x
<1>4. Wrap(x) \in Int /\ (from.maxBytes > 0 /\ x <= IntMax => Wrap(x) = x)
  BY <1>1, <1>2, WrapFits
<1>5. CASE from.maxUncompressed > 0
  <2>1. uncompressedLimit = from.maxUncompressed
    BY <1>5, <1>1 DEF uncompressedLimit
  <2> QED
    BY <1>1, <1>3, <1>5, <2>1
<1>6. CASE ~(from.maxUncompressed > 0)
  <2>1. from.maxUncompressed <= 0
    BY <1>1, <1>6
  <2>2. uncompressedLimit = IF from.maxBytes > 0 THEN Wrap(x) ELSE 0
    BY <1>6, <2>1 DEF uncompressedLimit, x
  <2>3. LimitFits => x < IntMax
    BY <1>3, <1>6 DEF LimitFits
  <2>4. LimitFits /\ from.maxBytes > 0 => uncompressedLimit = x
    BY <1>1, <1>2, <1>4, <2>2, <2>3
  <2> QED
    BY <1>1, <1>2, <1>3, <1>4, <1>6, <2>2, <2>4
<1> QED
  BY <1>5, <1>6

\* What the copy gets: never more than one byte over the limit, and without an
\* error only a whole stream within it.
LEMMA CopyFacts ==
    ASSUME from \in Froms, opened \in Versions, NEW s \in Streams,
           NEW c, c = copyLimited(s, uncompressedLimit)
    PROVE  /\ c.n \in Nat
           /\ LimitFits /\ PlainCap > 0 => c.n <= PlainCap + 1
           /\ LimitFits /\ ~c.err =>
                /\ c.n = opened.plain /\ body = "whole"
                /\ PlainCap > 0 => c.n <= PlainCap
<1>1. /\ s.n \in Nat /\ s.err \in BOOLEAN
      /\ ~s.err => s.n = opened.plain /\ body = "whole"
  <2>1. opened.plain \in Nat
    BY VersionFacts
  <2>2. CASE body = "whole"
    <3>1. s = [n |-> opened.plain, err |-> FALSE]
      BY <2>2 DEF Streams
    <3> QED
      BY <2>1, <2>2, <3>1
  <2>3. CASE body # "whole"
    <3>1. PICK m \in 0 .. opened.plain : s = [n |-> m, err |-> TRUE]
      BY <2>3 DEF Streams
    <3> QED
      BY <2>1, <3>1
  <2> QED
    BY <2>2, <2>3
<1> DEFINE L == uncompressedLimit
           N == Wrap(L + 1)
<1>2. /\ L \in Int /\ PlainCap \in Int /\ IntMax \in Nat
      /\ LimitFits /\ PlainCap > 0 => L = PlainCap
      /\ LimitFits /\ L > 0 => L = PlainCap
  BY LimitIsCap, SourceAssumption
<1>3. N \in Int /\ (LimitFits /\ L > 0 => N = L + 1)
  <2>1. LimitFits /\ L > 0 => L + 1 \in Nat /\ L + 1 <= IntMax
    BY <1>2 DEF LimitFits
  <2> QED
    BY <1>2, <2>1, WrapFits
<1>4. c = IF L <= 0 THEN s ELSE [n |-> LimitReader(s, N).n,
                                err |-> LimitReader(s, N).err \/ LimitReader(s, N).n > L]
  BY DEF copyLimited
<1> HIDE DEF L, N
<1>5. LimitReader(s, N) = IF N <= 0 THEN [n |-> 0, err |-> FALSE]
                          ELSE IF s.n >= N THEN [n |-> N, err |-> FALSE] ELSE s
  BY <1>1, <1>3 DEF LimitReader
<1>6. CASE L <= 0
  BY <1>1, <1>2, <1>4, <1>6
<1>7. CASE L > 0
  <2>1. c.n = LimitReader(s, N).n /\ (c.err <=> LimitReader(s, N).err \/ LimitReader(s, N).n > L)
    <3>1. ~(L <= 0)
      BY <1>2, <1>7
    <3>2. c = [n |-> LimitReader(s, N).n,
               err |-> LimitReader(s, N).err \/ LimitReader(s, N).n > L]
      BY <1>4, <3>1
    <3> DEFINE e == LimitReader(s, N).err \/ LimitReader(s, N).n > L
    <3>3. e \in BOOLEAN
      OBVIOUS
    <3>4. c = [n |-> LimitReader(s, N).n, err |-> e]
      BY <3>2
    <3> HIDE DEF e
    <3>5. c.n = LimitReader(s, N).n /\ c.err = e
      BY <3>3, <3>4
    <3> QED
      BY <3>5 DEF e
  <2>2. CASE N <= 0
    <3>1. c.n = 0 /\ ~LimitFits
      BY <1>2, <1>3, <1>5, <1>7, <2>1, <2>2
    <3> QED
      BY <3>1
  <2>3. CASE N > 0 /\ s.n >= N
    <3>1. c.n = N /\ (c.err <=> N > L)
      BY <1>3, <1>5, <2>1, <2>3
    <3> QED
      BY <1>2, <1>3, <1>7, <2>3, <3>1
  <2>4. CASE N > 0 /\ ~(s.n >= N)
    <3>1. c.n = s.n /\ (c.err <=> s.err \/ s.n > L)
      BY <1>3, <1>5, <2>1, <2>4
    <3> QED
      BY <1>1, <1>2, <1>3, <1>7, <2>4, <3>1
  <2> QED
    BY <1>3, <2>2, <2>3, <2>4
<1> QED
  BY <1>2, <1>6, <1>7

-----------------------------------------------------------------------------
(* Type correctness.                                                       *)

\* The first state has the types.
LEMMA TypeInit == Init => TypeOK
<1> SUFFICES ASSUME Init PROVE TypeOK
  OBVIOUS
<1>0. SourceInit /\ RestoreInit /\ format = FormatOf[from] /\ ctxDone = FALSE
  BY Zenon DEF Init
<1>1. store \in [Keys -> Versions \cup {NoObject}]
  <2>1. VersionsAt(0) \subseteq Versions /\ VersionsAt(1) \subseteq Versions
    BY VersionFacts DEF VersionsAt
  <2>2. store \in [Keys -> VersionsAt(0) \cup VersionsAt(1) \cup {NoObject}]
    BY <1>0, Zenon DEF SourceInit
  <2> QED
    BY <2>1, <2>2
<1>2. from \in Froms /\ key \in Keys
  <2>1. from \in Froms /\ key = from.uri
    BY <1>0, Zenon DEF SourceInit
  <2> QED
    BY <2>1, FromType
<1>3. fi \in [mod : Nat, size : Nat] /\ backup \in Backups
  <2>1. fi = [mod |-> 0, size |-> 0] /\ backup = NoBackup
    BY <1>0, Zenon DEF SourceInit
  <2>2. NoBackup \in Backups
    BY DEF NoBackup, Backups
  <2> QED
    BY <2>1, <2>2
<1>4. SourceTypeOK
  <2>1. /\ now = 1 /\ writes = 0 /\ pc = "start"
        /\ todo = {} /\ seen = 0 /\ newest = NoKey /\ untouched = {}
        /\ opened = NoObject /\ enc = "" /\ comp = FALSE /\ body = "whole" /\ tmp = -1
    BY <1>0, Zenon DEF SourceInit
  <2> QED
    BY <1>1, <1>2, <1>3, <2>1 DEF SourceTypeOK, Layers
<1>5. res \in [err : BOOLEAN, dur : Nat \cup {Unmeasured}, step : {"none", "startup"}]
  BY DEF Init, RestoreInit, Running
<1>6. format \in Formats
  BY <1>2, FormatAssumption DEF Init
<1>7. RestoreTypeOK
  BY <1>5, <1>6 DEF Init, RestoreInit, RestoreTypeOK
<1> QED
  BY <1>4, <1>7 DEF Init, TypeOK

\* "return nil, err" changes the place only.
LEMMA FailType ==
    ASSUME SourceTypeOK, Fail, UNCHANGED <<now, store, writes, from>>, tmp' \in {tmp, -1}
    PROVE  SourceTypeOK'
BY DEF Fail, SourceTypeOK, listVars, openVars, readVars

\* The date of a copy is a date.
LEMMA ModTimeType ==
    ASSUME SourceTypeOK, opened \in Versions
    PROVE  modTime \in Nat
BY VersionFacts DEF modTime, SourceTypeOK

\* Fetch keeps the types.
LEMMA FetchType ==
    ASSUME SourceTypeOK, PlaceInv, FetchStep
    PROVE  SourceTypeOK'
<1>a. UNCHANGED <<now, writes, from>>
  BY DEF FetchStep
<1>b. /\ now \in Nat /\ writes \in Nat /\ from \in Froms /\ key \in Keys /\ tmp \in Nat \cup {-1}
      /\ \A k \in Keys : Exists(k) => store[k] \in Versions
  BY DEF SourceTypeOK, Exists
<1>c. todo \subseteq Nat
  BY SourceAssumption DEF SourceTypeOK
<1>1. CASE Fail /\ UNCHANGED store /\ tmp' \in {tmp, -1}
  BY <1>1, <1>a, FailType
<1>2. CASE StartListing /\ ~Fail
  <2>1. /\ pc' = "list" /\ untouched' = Keys
        /\ UNCHANGED <<seen, newest, key, fi, opened, enc, comp, body, backup, store, tmp>>
    BY <1>2 DEF StartListing, openVars, readVars
  <2>2. todo' \subseteq Keys
    BY <1>2 DEF StartListing
  <2> QED
    BY <1>a, <2>1, <2>2 DEF SourceTypeOK
<1>3. CASE ListNext /\ ~Fail
  <2> DEFINE k == Min(todo)
  <2>1. k \in todo
    BY <1>3, <1>c, MinIn DEF ListNext
  <2> HIDE DEF k
  <2>2. /\ LookAt(k) /\ todo' = todo \ {k}
        /\ seen' = IF from.type = "s3" /\ Exists(k) THEN seen + 1 ELSE seen
        /\ UNCHANGED <<pc, untouched, key, fi, opened, enc, comp, body, backup, store, tmp>>
    BY <1>3 DEF ListNext, openVars, readVars, k
  <2>3. newest' \in [key : Keys, mod : Nat] \cup {NoKey}
    <3>1. CASE Candidate(k)
      <4>1. k \in Keys /\ store[k].mod \in Nat
        BY <1>b, <2>1, <3>1, VersionFacts DEF Candidate, SourceTypeOK
      <4> QED
        BY <2>2, <4>1 DEF LookAt, SourceTypeOK
    <3>2. CASE ~Candidate(k)
      BY <2>2, <3>2 DEF LookAt, SourceTypeOK
    <3> QED
      BY <3>1, <3>2
  <2>4. seen' \in Nat /\ todo' \subseteq Keys
    BY <2>2 DEF SourceTypeOK
  <2> QED
    BY <1>a, <2>2, <2>3, <2>4 DEF SourceTypeOK
<1>4. CASE ListDone /\ ~Fail
  <2>1. /\ newest # NoKey /\ key' = newest.key /\ pc' = "open"
        /\ UNCHANGED <<todo, seen, newest, untouched, fi, opened, enc, comp, body, backup, store, tmp>>
    BY <1>4 DEF ListDone, listVars, readVars
  <2>2. key' \in Keys
    BY <2>1 DEF SourceTypeOK
  <2> QED
    BY <1>a, <2>1, <2>2 DEF SourceTypeOK
<1>5. CASE NoListing
  BY <1>a, <1>5 DEF NoListing, listVars, openVars, readVars, SourceTypeOK
<1>6. CASE StatFile /\ ~Fail
  <2>1. /\ Exists(key) /\ fi' = [mod |-> store[key].mod, size |-> store[key].stored] /\ pc' = "read"
        /\ UNCHANGED <<todo, seen, newest, untouched, key, opened, enc, comp, body, backup, store, tmp>>
    BY <1>6 DEF StatFile, listVars, readVars
  <2>2. fi' \in [mod : Nat, size : Nat]
    BY <1>b, <2>1, VersionFacts
  <2> QED
    BY <1>a, <2>1, <2>2 DEF SourceTypeOK
<1>7. CASE (OpenFile \/ GetObject) /\ ~Fail
  <2>1. /\ Exists(key) /\ opened' = store[key] /\ body' \in {"whole", "broken"} /\ pc' = "decrypt"
        /\ UNCHANGED <<todo, seen, newest, untouched, key, fi, enc, comp, backup, store, tmp>>
    BY <1>7 DEF OpenFile, GetObject, listVars
  <2>2. opened' \in Versions \cup {NoObject}
    BY <1>b, <2>1
  <2> QED
    BY <1>a, <2>1, <2>2 DEF SourceTypeOK
<1>8. CASE Decrypt /\ ~Fail
  <2>1. /\ body' \in {"whole", "broken"} /\ enc' = from.decrypt /\ pc' = "decompress"
        /\ UNCHANGED <<todo, seen, newest, untouched, key, fi, opened, comp, backup, store, tmp>>
    BY <1>8 DEF Decrypt, listVars, openVars
  <2>2. enc' \in Layers
    BY <1>b, <2>1, FromType
  <2> QED
    BY <1>a, <2>1, <2>2 DEF SourceTypeOK
<1>9. CASE Decompress /\ ~Fail
  <2>1. /\ body' \in {"whole", "broken"} /\ comp' \in BOOLEAN /\ pc' = "layers"
        /\ UNCHANGED <<todo, seen, newest, untouched, key, fi, opened, enc, backup, store, tmp>>
    BY <1>9 DEF Decompress, listVars, openVars
  <2> QED
    BY <1>a, <2>1 DEF SourceTypeOK
<1>10. CASE ReturnInPlace
  <2>1. /\ backup' = [path |-> "source", cleanup |-> "none", modTime |-> fi.mod, size |-> fi.size]
        /\ pc' = "ok"
        /\ UNCHANGED <<todo, seen, newest, untouched, key, fi, opened, enc, comp, body, store, tmp>>
    BY <1>10 DEF ReturnInPlace, listVars, openVars, readVars
  <2>2. backup' \in Backups
    BY <2>1 DEF Backups, SourceTypeOK
  <2> QED
    BY <1>a, <2>1, <2>2 DEF SourceTypeOK
<1>11. CASE SpoolCreate /\ ~Fail
  <2>1. /\ tmp' = 0 /\ pc' = "copy"
        /\ UNCHANGED <<todo, seen, newest, untouched, key, fi, opened, enc, comp, body, backup, store>>
    BY <1>11 DEF SpoolCreate, listVars, openVars, readVars
  <2> QED
    BY <1>a, <2>1 DEF SourceTypeOK
<1>12. CASE SpoolCopy
  <2>1. opened \in Versions
    BY <1>12 DEF SpoolCopy, PlaceInv, Reading
  <2>2. PICK s \in Streams :
          LET c == copyLimited(s, uncompressedLimit) IN
            /\ tmp' = c.n
            /\ \/ /\ backup' = [path |-> "tmp", cleanup |-> "tmp", modTime |-> modTime,
                               size |-> IF from.type = "file" THEN fi.size ELSE opened.stored]
                  /\ pc' = "ok"
               \/ pc' = "spool" /\ UNCHANGED backup
    BY <1>12 DEF SpoolCopy
  <2>3. UNCHANGED <<todo, seen, newest, untouched, key, fi, opened, enc, comp, body, store>>
    BY <1>12 DEF SpoolCopy, listVars, openVars, readVars
  <2>4. tmp' \in Nat
    BY <1>b, <2>1, <2>2, CopyFacts
  <2>5. modTime \in Nat /\ fi.size \in Nat /\ opened.stored \in Nat
    BY <2>1, ModTimeType, VersionFacts DEF SourceTypeOK
  <2>6. backup' \in Backups
    BY <2>2, <2>5 DEF Backups, SourceTypeOK
  <2>7. pc' \in {"ok", "spool"}
    BY <2>2
  <2> QED
    BY <1>a, <2>3, <2>4, <2>6, <2>7 DEF SourceTypeOK
<1> QED
  <2>1. CASE Fail
    BY <1>1, <2>1 DEF FetchStep, fetchFile, StartListing, ListNext, ListDone, NoListing, StatFile,
       OpenFile, ReturnInPlace, GetObject, Decrypt, Decompress, SpoolCreate, SpoolCopy, SpoolFailed,
       Fail
  <2>2. CASE ~Fail
    <3>1. ~SpoolFailed
      BY <2>2 DEF SpoolFailed
    <3> QED
      BY <1>2, <1>3, <1>4, <1>5, <1>6, <1>7, <1>8, <1>9, <1>10, <1>11, <1>12, <2>2, <3>1
         DEF FetchStep, fetchFile
  <2> QED
    BY <2>1, <2>2

Results == [err : BOOLEAN, dur : Nat \cup {Unmeasured}, step : {"none", "startup"}]

\* What Restore may return is a result.
LEMMA ReturnTypes ==
    ASSUME now \in Nat, startAt \in Nat, startAt <= now
    PROVE  /\ [err |-> TRUE, dur |-> Unmeasured, step |-> "none"] \in Results
           /\ [err |-> TRUE, dur |-> now - startAt, step |-> "none"] \in Results
           /\ [err |-> FALSE, dur |-> now - startAt, step |-> "none"] \in Results
           /\ [err |-> TRUE, dur |-> now - startAt, step |-> "startup"] \in Results
<1>1. now - startAt \in Nat
  OBVIOUS
<1> QED
  BY <1>1 DEF Results

\* Restore keeps the types.
LEMMA RestoreType ==
    ASSUME SourceTypeOK, RestoreTypeOK, startAt <= now, NEW content,
           RestoreStep(now, ctxDone, content)
    PROVE  RestoreTypeOK'
<1>a. now \in Nat /\ startAt \in Nat /\ pollBy \in Nat /\ res \in Results
  BY DEF SourceTypeOK, RestoreTypeOK, Results
<1>b. format' = format
  BY DEF RestoreStep, Begin, Preflight, OpenBackup, WriteConfig, Load, Untar, PrepareDirectory,
     StartCluster, PollCluster, GrepLog
<1>1. res' \in Results
  BY <1>a, ReturnTypes DEF RestoreStep, Begin, Preflight, OpenBackup, WriteConfig, Load, Untar,
     PrepareDirectory, StartCluster, PollCluster, GrepLog, Returns, ReturnsError, ReturnsFailed,
     ReturnsOk
<1>2. rpc' \in {"idle", "preflight", "open", "config", "exec", "untar", "prepare", "start",
                "poll", "grep", "done"}
  BY DEF RestoreStep, Begin, Preflight, OpenBackup, WriteConfig, Load, Untar, PrepareDirectory,
     StartCluster, PollCluster, GrepLog, Returns, ReturnsError, ReturnsFailed, ReturnsOk
<1>3. startAt' \in Nat /\ pollBy' \in Nat
  <2>1. startAt' \in {startAt, now} /\ pollBy' \in {pollBy, now + StartLimit}
    BY DEF RestoreStep, Begin, Preflight, OpenBackup, WriteConfig, Load, Untar, PrepareDirectory,
       StartCluster, PollCluster, GrepLog
  <2> QED
    BY <1>a, <2>1, RestoreAssumption
<1>4. cut' \in BOOLEAN /\ loaded' \in {"none", "part", "all"}
  <2>1. (cut' = cut /\ loaded' = loaded) \/ Stream
    BY DEF RestoreStep, Begin, Preflight, OpenBackup, WriteConfig, Load, Untar, PrepareDirectory,
       StartCluster, PollCluster, GrepLog
  <2>2. CASE cut' = cut /\ loaded' = loaded
    BY <2>2 DEF RestoreTypeOK
  <2>3. CASE Stream
    BY <2>3 DEF Stream
  <2> QED
    BY <2>1, <2>2, <2>3
<1>5. /\ cluster' \in {"cold", "recovering", "up", "refusing", "dead"}
      /\ log' \subseteq {"transient", "refused", "fatal"}
  <2>1. /\ cluster' \in {cluster, "recovering"}
        /\ log' \in {log, log \cup {"transient"}, log \cup {"refused"}}
    BY DEF RestoreStep, Begin, Preflight, OpenBackup, WriteConfig, Load, Untar, PrepareDirectory,
       StartCluster, PollCluster, QueryLogged, GrepLog
  <2> QED
    BY <2>1 DEF RestoreTypeOK
<1> QED
  BY <1>b, <1>1, <1>2, <1>3, <1>4, <1>5 DEF RestoreTypeOK, Results

\* The rest of the system keeps the types.
LEMMA OthersType ==
    ASSUME TypeOK, CleanupBackup \/ Environment
    PROVE  TypeOK'
<1>a. SourceTypeOK /\ RestoreTypeOK /\ ctxDone \in BOOLEAN
  BY DEF TypeOK
<1>1. CASE CleanupBackup
  <2>1. /\ pc' = "cleaned"
        /\ UNCHANGED <<now, writes, from, todo, seen, newest, untouched, key, fi, opened, enc, comp,
                       body, backup, restoreVars, ctxDone>>
    BY <1>1 DEF CleanupBackup, Cleanup, listVars, openVars, readVars
  <2>2. tmp' \in {tmp, -1} /\ store' \in {store, [store EXCEPT ![key] = NoObject]}
    BY <1>1 DEF CleanupBackup, Cleanup, Remove
  <2>3. store' \in [Keys -> Versions \cup {NoObject}]
    BY <1>a, <2>2 DEF SourceTypeOK
  <2>4. SourceTypeOK'
    BY <1>a, <2>1, <2>2, <2>3 DEF SourceTypeOK
  <2>5. RestoreTypeOK'
    BY <1>a, <2>1 DEF RestoreTypeOK, restoreVars
  <2> QED
    BY <1>a, <2>1, <2>4, <2>5 DEF TypeOK
<1>2. CASE BackupJob /\ UNCHANGED <<restoreVars, ctxDone>>
  <2>1. PICK k \in Keys \ Directories :
          /\ untouched' = untouched \ {k}
          /\ \/ \E b \in Objects : store' = [store EXCEPT ![k] = VersionOf(b, now)]
             \/ store' = [store EXCEPT ![k] = NoObject]
    BY <1>2 DEF BackupJob
  <2>2. store' \in [Keys -> Versions \cup {NoObject}]
    <3>1. store \in [Keys -> Versions \cup {NoObject}] /\ now \in Nat
      BY <1>a DEF SourceTypeOK
    <3>2. CASE store' = [store EXCEPT ![k] = NoObject]
      BY <3>1, <3>2
    <3>3. CASE \E b \in Objects : store' = [store EXCEPT ![k] = VersionOf(b, now)]
      BY <3>1, <3>3, VersionFacts
    <3> QED
      BY <2>1, <3>2, <3>3
  <2>3. /\ writes' = writes + 1
        /\ UNCHANGED <<now, from, pc, todo, seen, newest, key, fi, opened, enc, comp, body, tmp,
                       backup, restoreVars, ctxDone>>
    BY <1>2 DEF BackupJob, openVars, readVars
  <2>4. SourceTypeOK'
    BY <1>a, <2>1, <2>2, <2>3 DEF SourceTypeOK
  <2>5. RestoreTypeOK'
    BY <1>a, <2>3 DEF RestoreTypeOK, restoreVars
  <2> QED
    BY <1>a, <2>3, <2>4, <2>5 DEF TypeOK
<1>3. CASE Tick /\ UNCHANGED <<restoreVars, ctxDone>>
  <2>1. SourceTypeOK'
    BY <1>a, <1>3 DEF SourceTypeOK, Tick, listVars, openVars, readVars
  <2>2. RestoreTypeOK'
    BY <1>a, <1>3 DEF RestoreTypeOK, restoreVars
  <2> QED
    BY <1>a, <1>3, <2>1, <2>2 DEF TypeOK
<1>4. CASE ClusterMoves /\ UNCHANGED <<sourceVars, ctxDone>>
  <2>1. SourceTypeOK'
    BY <1>a, <1>4 DEF SourceTypeOK, sourceVars, listVars, openVars, readVars
  <2>2. RestoreTypeOK'
    BY <1>a, <1>4 DEF RestoreTypeOK, ClusterMoves
  <2> QED
    BY <1>a, <1>4, <2>1, <2>2 DEF TypeOK
<1>5. CASE ctxDone' = TRUE /\ UNCHANGED <<sourceVars, restoreVars>>
  <2>1. SourceTypeOK'
    BY <1>a, <1>5 DEF SourceTypeOK, sourceVars, listVars, openVars, readVars
  <2>2. RestoreTypeOK'
    BY <1>a, <1>5 DEF RestoreTypeOK, restoreVars
  <2> QED
    BY <1>5, <2>1, <2>2 DEF TypeOK
<1> QED
  BY <1>1, <1>2, <1>3, <1>4, <1>5 DEF Environment

\* Every step keeps the types.
LEMMA TypeStep == IInv /\ [Next]_vars => TypeOK'
<1> SUFFICES ASSUME IInv, [Next]_vars PROVE TypeOK'
  OBVIOUS
<1>a. /\ TypeOK /\ SourceTypeOK /\ RestoreTypeOK /\ ctxDone \in BOOLEAN
      /\ PlaceInv /\ startAt <= now
  BY DEF IInv, TypeOK, FetchInv, EngineInv
<1>1. CASE Fetch
  <2>1. SourceTypeOK'
    BY <1>a, <1>1, FetchType DEF Fetch
  <2>2. RestoreTypeOK'
    BY <1>a, <1>1 DEF Fetch, RestoreTypeOK, restoreVars
  <2> QED
    BY <1>a, <1>1, <2>1, <2>2 DEF Fetch, TypeOK
<1>2. CASE Restore
  <2>1. SourceTypeOK'
    BY <1>a, <1>2 DEF Restore, SourceTypeOK, sourceVars, listVars, openVars, readVars
  <2>2. RestoreTypeOK'
    BY <1>a, <1>2, RestoreType DEF Restore
  <2> QED
    BY <1>a, <1>2, <2>1, <2>2 DEF Restore, TypeOK
<1>3. CASE CleanupBackup \/ Environment
  BY <1>a, <1>3, OthersType
<1>4. CASE UNCHANGED vars
  <2>1. SourceTypeOK'
    BY <1>a, <1>4 DEF vars, SourceTypeOK, sourceVars, listVars, openVars, readVars
  <2>2. RestoreTypeOK'
    BY <1>a, <1>4 DEF vars, RestoreTypeOK, restoreVars
  <2> QED
    BY <1>a, <1>4, <2>1, <2>2 DEF vars, TypeOK
<1> QED
  BY <1>1, <1>2, <1>3, <1>4 DEF Next

-----------------------------------------------------------------------------
(* The restore.                                                            *)

\* Steps of others, time among them, leave what is known of the engine.
LEMMA EngineFrame ==
    ASSUME TypeOK, EngineInv, now' \in Nat, now <= now', UNCHANGED restoreVars
    PROVE  EngineInv'
<1>1. startAt' <= now'
  BY DEF EngineInv, restoreVars, TypeOK, SourceTypeOK, RestoreTypeOK
<1> QED
  BY <1>1 DEF EngineInv, restoreVars, RestoredMeansServing

\* The server comes up or gives up, and stays that way.
LEMMA ClusterMovesStep ==
    ASSUME TypeOK, EngineInv, ClusterMoves, UNCHANGED now
    PROVE  EngineInv'
<1>1. /\ cluster = "recovering"
      /\ \/ cluster' \in {"up", "refusing"} /\ log' = log
         \/ cluster' = "dead" /\ log' = log \cup {"fatal"}
      /\ UNCHANGED <<format, rpc, input, cut, loaded, startAt, pollBy, res>>
  BY DEF ClusterMoves
<1>2. rpc \in {"poll", "grep", "done"}
  BY <1>1 DEF TypeOK, RestoreTypeOK, EngineInv
<1>3. "fatal" \notin log /\ "refused" \notin log /\ res.step # "startup"
  BY <1>1 DEF EngineInv, LinesAreTrue
<1>4. rpc = "done" /\ ~res.err => format # "basebackup"
  BY <1>1 DEF EngineInv, RestoredMeansServing
<1>5. RestoredMeansServing'
  BY <1>1, <1>4 DEF EngineInv, RestoredMeansServing
<1>6. LinesAreTrue(log', cluster')
  BY <1>1, <1>3 DEF LinesAreTrue
<1> QED
  BY <1>1, <1>2, <1>3, <1>5, <1>6 DEF EngineInv

\* A step of Restore that ends it.  A physical restore returns success only with
\* the server up.
LEMMA ReturnStep ==
    ASSUME TypeOK, EngineInv, rpc' = "done", UNCHANGED <<now, format, cluster, log>>,
           startAt' <= now',
           res'.step = "startup" => cluster \in {"dead", "refusing"},
           ~res'.err /\ format = "basebackup" => cluster = "up"
    PROVE  EngineInv'
<1>1. LinesAreTrue(log', cluster')
  BY DEF EngineInv
<1> QED
  BY <1>1 DEF EngineInv, RestoredMeansServing

\* A step of Restore that goes on.
LEMMA GoOnStep ==
    ASSUME TypeOK, EngineInv, rpc # "done",
           rpc' \in {"preflight", "open", "config", "exec", "untar", "prepare", "start", "poll", "grep"},
           UNCHANGED <<now, format, res>>, startAt' <= now',
           rpc' \in {"preflight", "open", "config", "exec", "untar", "prepare", "start"}
             => cluster' = "cold" /\ log' = {},
           rpc' \in {"config", "exec"} => format # "basebackup",
           rpc' \in {"untar", "prepare", "start", "poll", "grep"} => format = "basebackup",
           LinesAreTrue(log', cluster')
    PROVE  EngineInv'
<1>1. res.step # "startup"
  BY DEF EngineInv
<1> QED
  BY <1>1 DEF EngineInv, RestoredMeansServing

\* Restore keeps what is known of the engine.
LEMMA EngineStep ==
    ASSUME TypeOK, EngineInv, UNCHANGED now, NEW content, RestoreStep(now, ctxDone, content)
    PROVE  EngineInv'
<1>a. /\ now \in Nat /\ startAt \in Nat /\ startAt <= now /\ format \in Formats
      /\ now' = now /\ rpc # "done"
  BY DEF TypeOK, SourceTypeOK, RestoreTypeOK, EngineInv, RestoreStep, Begin, Preflight, OpenBackup,
     WriteConfig, Load, Untar, PrepareDirectory, StartCluster, PollCluster, GrepLog
<1>b. startAt' \in {startAt, now} /\ UNCHANGED format
  BY DEF RestoreStep, Begin, Preflight, OpenBackup, WriteConfig, Load, Untar, PrepareDirectory,
     StartCluster, PollCluster, GrepLog
<1>c. startAt' <= now'
  BY <1>a, <1>b
<1>d. LinesAreTrue(log, cluster) /\ LinesAreTrue({}, cluster')
  BY DEF EngineInv, LinesAreTrue
<1>e. ReturnsError => rpc' = "done" /\ res'.err /\ res'.step = "none"
  BY DEF ReturnsError, Returns
<1>f. ReturnsFailed(now) => rpc' = "done" /\ res'.err /\ res'.step = "none"
  BY DEF ReturnsFailed, Returns
<1>g. ReturnsOk(now) => rpc' = "done" /\ ~res'.err /\ res'.step = "none"
  BY DEF ReturnsOk, Returns
<1>1. CASE Begin
  <2>1. rpc' \in {"preflight", "open"} /\ UNCHANGED <<cut, loaded, cluster, log, res>>
    BY <1>1 DEF Begin
  <2>2. cluster = "cold" /\ log = {}
    BY <1>1 DEF Begin, EngineInv
  <2> QED
    BY <1>a, <1>b, <1>c, <1>d, <2>1, <2>2, GoOnStep
<1>2. CASE Preflight(ctxDone)
  <2>1. UNCHANGED <<cut, loaded, cluster, log>> /\ cluster = "cold" /\ log = {}
    BY <1>2 DEF Preflight, EngineInv
  <2>2. CASE rpc' = "open" /\ UNCHANGED res
    BY <1>a, <1>b, <1>c, <1>d, <2>1, <2>2, GoOnStep
  <2>3. CASE ReturnsError
    BY <1>a, <1>b, <1>c, <1>e, <2>1, <2>3, ReturnStep
  <2> QED
    BY <1>2, <2>2, <2>3 DEF Preflight
<1>3. CASE OpenBackup(now, content)
  <2>1. UNCHANGED <<cut, loaded, cluster, log>> /\ cluster = "cold" /\ log = {}
    BY <1>3 DEF OpenBackup, EngineInv
  <2>2. CASE ReturnsError
    BY <1>a, <1>b, <1>c, <1>e, <2>1, <2>2, ReturnStep
  <2>3. CASE ~ReturnsError
    <3>1. /\ UNCHANGED res
          /\ rpc' = CASE format = "archive" -> "config"
                      [] format = "basebackup" -> "untar"
                      [] OTHER -> "exec"
      BY <1>3, <2>3 DEF OpenBackup
    <3>2. \/ rpc' \in {"config", "exec"} /\ format # "basebackup"
          \/ rpc' = "untar" /\ format = "basebackup"
      BY <3>1
    <3> QED
      BY <1>a, <1>b, <1>c, <1>d, <2>1, <3>1, <3>2, GoOnStep
  <2> QED
    BY <2>2, <2>3
<1>4. CASE WriteConfig(now, ctxDone)
  <2>1. /\ UNCHANGED <<cut, loaded, cluster, log>> /\ cluster = "cold" /\ log = {}
        /\ format # "basebackup"
    BY <1>4 DEF WriteConfig, EngineInv
  <2>2. CASE rpc' = "exec" /\ UNCHANGED res
    BY <1>a, <1>b, <1>c, <1>d, <2>1, <2>2, GoOnStep
  <2>3. CASE ReturnsError
    BY <1>a, <1>b, <1>c, <1>e, <2>1, <2>3, ReturnStep
  <2> QED
    BY <1>4, <2>2, <2>3 DEF WriteConfig
<1>5. CASE Load(now, ctxDone)
  <2>1. UNCHANGED <<cluster, log>> /\ format # "basebackup"
    BY <1>5 DEF Load, EngineInv
  <2>2. CASE ReturnsOk(now)
    BY <1>a, <1>b, <1>c, <1>g, <2>1, <2>2, ReturnStep
  <2>3. CASE ReturnsFailed(now) \/ ReturnsError
    BY <1>a, <1>b, <1>c, <1>e, <1>f, <2>1, <2>3, ReturnStep
  <2> QED
    BY <1>5, <2>2, <2>3 DEF Load
<1>6. CASE Untar(now, ctxDone)
  <2>1. /\ UNCHANGED <<cluster, log>> /\ cluster = "cold" /\ log = {}
        /\ format = "basebackup"
    BY <1>6 DEF Untar, EngineInv
  <2>2. CASE rpc' = "prepare" /\ UNCHANGED res
    BY <1>a, <1>b, <1>c, <1>d, <2>1, <2>2, GoOnStep
  <2>3. CASE ReturnsFailed(now) \/ ReturnsError
    BY <1>a, <1>b, <1>c, <1>e, <1>f, <2>1, <2>3, ReturnStep
  <2> QED
    BY <1>6, <2>2, <2>3 DEF Untar
<1>7. CASE PrepareDirectory(now, ctxDone)
  <2>1. /\ UNCHANGED <<cut, loaded, cluster, log>> /\ cluster = "cold" /\ log = {}
        /\ format = "basebackup"
    BY <1>7 DEF PrepareDirectory, EngineInv
  <2>2. CASE rpc' = "start" /\ UNCHANGED res
    BY <1>a, <1>b, <1>c, <1>d, <2>1, <2>2, GoOnStep
  <2>3. CASE ReturnsFailed(now) \/ ReturnsError
    BY <1>a, <1>b, <1>c, <1>e, <1>f, <2>1, <2>3, ReturnStep
  <2> QED
    BY <1>7, <2>2, <2>3 DEF PrepareDirectory
<1>8. CASE StartCluster(now, ctxDone)
  <2>1. /\ UNCHANGED <<cut, loaded, log>> /\ log = {}
        /\ format = "basebackup"
    BY <1>8 DEF StartCluster, EngineInv
  <2>2. CASE rpc' = "poll" /\ UNCHANGED res
    BY <1>a, <1>b, <1>c, <1>d, <2>1, <2>2, GoOnStep
  <2>3. CASE (ReturnsFailed(now) \/ ReturnsError) /\ UNCHANGED cluster
    BY <1>a, <1>b, <1>c, <1>e, <1>f, <2>1, <2>3, ReturnStep
  <2> QED
    BY <1>8, <2>2, <2>3 DEF StartCluster
<1>9. CASE PollCluster(now, ctxDone)
  <2>1. /\ UNCHANGED <<cut, loaded, cluster>>
        /\ format = "basebackup"
    BY <1>9 DEF PollCluster, EngineInv
  <2>2. CASE ReturnsError /\ UNCHANGED log
    BY <1>a, <1>b, <1>c, <1>e, <2>1, <2>2, ReturnStep
  <2>3. CASE cluster = "up" /\ ReturnsOk(now) /\ UNCHANGED log
    BY <1>a, <1>b, <1>c, <1>g, <2>1, <2>3, ReturnStep
  <2>4. CASE rpc' = "grep" /\ (QueryLogged \/ UNCHANGED log) /\ UNCHANGED res
    <3>1. LinesAreTrue(log', cluster')
      BY <1>d, <2>1, <2>4 DEF LinesAreTrue, QueryLogged
    <3> QED
      BY <1>a, <1>b, <1>c, <2>1, <2>4, <3>1, GoOnStep
  <2> QED
    BY <1>9, <2>2, <2>3, <2>4 DEF PollCluster
<1>10. CASE GrepLog(now, ctxDone)
  <2>1. /\ UNCHANGED <<cut, loaded, cluster, log>>
        /\ format = "basebackup"
    BY <1>10 DEF GrepLog, EngineInv
  <2>2. CASE fatalStartupLine /\ Returns([err |-> TRUE, dur |-> now - startAt, step |-> "startup"])
    <3>1. rpc' = "done" /\ res'.err
      BY <2>2 DEF Returns
    <3>2. cluster \in {"dead", "refusing"}
      BY <1>d, <2>2 DEF fatalStartupLine, LinesAreTrue
    <3> QED
      BY <1>a, <1>b, <1>c, <2>1, <3>1, <3>2, ReturnStep
  <2>3. CASE rpc' = "poll" /\ UNCHANGED res
    BY <1>a, <1>b, <1>c, <1>d, <2>1, <2>3, GoOnStep
  <2> QED
    BY <1>10, <2>2, <2>3 DEF GrepLog
<1> QED
  BY <1>1, <1>2, <1>3, <1>4, <1>5, <1>6, <1>7, <1>8, <1>9, <1>10 DEF RestoreStep

-----------------------------------------------------------------------------
(* The fetch.                                                              *)

\* The numbers the invariant compares.
LEMMA Numbers ==
    ASSUME TypeOK
    PROVE  /\ now \in Nat /\ fi.mod \in Nat /\ newest.mod \in Int /\ key \in Keys /\ from \in Froms
           /\ from.type \in {"file", "s3"}
           /\ newest # NoKey => newest.key \in Keys
           /\ \A k \in Keys : Exists(k) => store[k] \in Versions /\ store[k].mod \in Nat
           /\ opened \in Versions => opened.mod \in Nat /\ opened.plain \in Nat
           /\ backup.modTime \in Nat /\ tmp \in Int /\ PlainCap \in Int
<1>1. SourceTypeOK
  BY DEF TypeOK
<1>2. now \in Nat /\ fi.mod \in Nat /\ key \in Keys /\ from \in Froms /\ tmp \in Int
  BY <1>1 DEF SourceTypeOK
<1>3. newest.mod \in Int /\ (newest # NoKey => newest.key \in Keys)
  BY <1>1 DEF SourceTypeOK, NoKey
<1>4. \A k \in Keys : Exists(k) => store[k] \in Versions /\ store[k].mod \in Nat
  BY <1>1, VersionFacts DEF SourceTypeOK, Exists
<1>5. backup.modTime \in Nat
  BY <1>1 DEF SourceTypeOK, Backups
<1> QED
  BY <1>2, <1>3, <1>4, <1>5, FromType, VersionFacts, LimitIsCap

\* The configuration does not change, and neither does what follows from it.
LEMMA FromFrame ==
    ASSUME UNCHANGED from
    PROVE  /\ PlainCap' = PlainCap /\ (LimitFits' <=> LimitFits) /\ (Dated' <=> Dated)
           /\ \A n : TooLarge(n)' <=> TooLarge(n)
BY DEF PlainCap, LimitFits, Dated, TooLarge

\* A step that leaves the source alone; the driver may open what Fetch returned.
LEMMA FetchFrame ==
    ASSUME FetchInv, UNCHANGED sourceVars,
           \/ input' = input
           \/ Returned /\ (Dated => backup.modTime <= input'.mod)
    PROVE  FetchInv'
<1>1. UNCHANGED <<now, store, from, pc, todo, newest, untouched, key, fi, opened, enc, comp, body,
                  tmp, backup>>
  BY DEF sourceVars, listVars, openVars, readVars
<1>2. (Reading' <=> Reading) /\ (Returned' <=> Returned)
  BY <1>1 DEF Reading, Returned
<1>3. \A k : (Exists(k)' <=> Exists(k)) /\ (Candidate(k)' <=> Candidate(k))
  BY <1>1 DEF Exists, Candidate
<1>4. /\ PlainCap' = PlainCap /\ (LimitFits' <=> LimitFits) /\ (Dated' <=> Dated)
      /\ \A n : TooLarge(n)' <=> TooLarge(n)
  BY <1>1, FromFrame
<1>5. PlaceInv' /\ TmpInv'
  BY <1>1, <1>2 DEF FetchInv, PlaceInv, TmpInv
<1>6. AgeInv' /\ ListInv'
  BY <1>1, <1>2, <1>3 DEF FetchInv, AgeInv, ListInv
<1>7. ClaimInv'
  BY <1>1, <1>2, <1>4 DEF FetchInv, ClaimInv
<1>8. BodyInv'
  BY <1>1, <1>2, <1>4 DEF FetchInv, BodyInv
<1>9. ChosenInv'
  BY <1>1, <1>2 DEF FetchInv, ChosenInv
<1> QED
  BY <1>5, <1>6, <1>7, <1>8, <1>9 DEF FetchInv

\* What a listing has found is not disturbed by the steps after it.
LEMMA ListFrame ==
    ASSUME FetchInv, UNCHANGED <<now, store, todo, newest, untouched>>, pc' # "start"
    PROVE  ListInv'
<1>1. \A k : (Exists(k)' <=> Exists(k)) /\ (Candidate(k)' <=> Candidate(k))
  BY DEF Exists, Candidate
<1> QED
  BY <1>1 DEF FetchInv, ListInv

\* "return nil, err" leaves nothing behind.
LEMMA FailStep ==
    ASSUME TypeOK, FetchInv, Fail, ~Returned, UNCHANGED <<now, store, from, input>>, tmp' = -1
    PROVE  FetchInv'
<1>1. pc' = "failed" /\ UNCHANGED <<todo, newest, untouched, key, fi, opened, enc, body, backup>>
  BY DEF Fail, listVars, openVars, readVars
<1>2. ~Reading' /\ ~Returned'
  BY <1>1 DEF Reading, Returned
<1>3. PlaceInv' /\ TmpInv' /\ ChosenInv'
  BY <1>1, <1>2 DEF FetchInv, PlaceInv, TmpInv, ChosenInv
<1>4. AgeInv'
  BY <1>1, <1>2 DEF FetchInv, AgeInv, Exists
<1>5. ClaimInv'
  BY <1>1, <1>2 DEF FetchInv, ClaimInv
<1>6. BodyInv'
  <2>1. PlainCap' = PlainCap /\ PlainCap \in Int
    BY FromFrame, Numbers
  <2> QED
    BY <1>1, <1>2, <2>1 DEF BodyInv
<1>7. ListInv'
  BY <1>1, ListFrame
<1> QED
  BY <1>3, <1>4, <1>5, <1>6, <1>7 DEF FetchInv

\* While names are looked at nothing has been opened, copied or claimed.
LEMMA EarlyStep ==
    ASSUME TypeOK, FetchInv, pc \in {"start", "list"}, pc' \in {"list", "open"},
           UNCHANGED <<now, store, from, tmp, backup, fi, opened, input>>
    PROVE  PlaceInv' /\ TmpInv' /\ AgeInv' /\ ClaimInv' /\ BodyInv'
<1>1. ~Reading' /\ ~Returned' /\ ~Returned
  BY DEF Reading, Returned
<1>2. PlaceInv' /\ TmpInv'
  BY <1>1 DEF FetchInv, PlaceInv, TmpInv
<1>3. AgeInv'
  BY <1>1 DEF FetchInv, AgeInv, Exists
<1>4. ClaimInv'
  BY <1>1 DEF FetchInv, ClaimInv
<1>5. BodyInv'
  <2>1. PlainCap' = PlainCap /\ PlainCap \in Int /\ tmp = -1
    BY FromFrame, Numbers DEF FetchInv, TmpInv
  <2> QED
    BY <1>1, <2>1 DEF BodyInv
<1> QED
  BY <1>2, <1>3, <1>4, <1>5

\* The listing starts: names that are not there are no candidates.
LEMMA StartListingStep ==
    ASSUME TypeOK, FetchInv, StartListing, ~Fail, UNCHANGED <<now, from, input>>
    PROVE  FetchInv'
<1>1. /\ pc = "start" /\ pc' = "list" /\ untouched' = Keys
      /\ todo' = IF from.type = "file" THEN {k \in Keys : Exists(k)} ELSE Keys
      /\ UNCHANGED <<newest, key, fi, opened, enc, comp, body, backup, store, tmp>>
  BY DEF StartListing, openVars, readVars
<1>2. PlaceInv' /\ TmpInv' /\ AgeInv' /\ ClaimInv' /\ BodyInv'
  BY <1>1, EarlyStep
<1>3. ListInv'
  <2>1. \A k : (Exists(k)' <=> Exists(k)) /\ (Candidate(k)' => Exists(k))
    BY <1>1 DEF Exists, Candidate
  <2>2. \A k \in untouched' : k \notin todo' => ~Candidate(k)'
    BY <1>1, <2>1
  <2> QED
    BY <1>1, <2>1, <2>2 DEF FetchInv, ListInv
<1>4. ChosenInv'
  BY <1>1 DEF ChosenInv
<1> QED
  BY <1>2, <1>3, <1>4 DEF FetchInv

\* A name is looked at: the best so far can only get newer.
LEMMA ListNextStep ==
    ASSUME TypeOK, FetchInv, ListNext, ~Fail, UNCHANGED <<now, from, input>>
    PROVE  FetchInv'
<1> DEFINE k == Min(todo)
<1>1. k \in todo /\ k \in Keys
  <2>1. todo \subseteq Nat /\ todo \subseteq Keys
    BY SourceAssumption DEF TypeOK, SourceTypeOK
  <2> QED
    BY <2>1, MinIn DEF ListNext
<1> HIDE DEF k
<1>2. /\ pc = "list" /\ pc' = "list" /\ LookAt(k) /\ todo' = todo \ {k}
      /\ UNCHANGED <<untouched, key, fi, opened, enc, comp, body, backup, store, tmp>>
  BY DEF ListNext, openVars, readVars, k
<1>3. PlaceInv' /\ TmpInv' /\ AgeInv' /\ ClaimInv' /\ BodyInv'
  BY <1>2, EarlyStep
<1>4. ChosenInv'
  BY <1>2 DEF ChosenInv
<1>5. ListInv'
  <2>1. \A j : (Exists(j)' <=> Exists(j)) /\ (Candidate(j)' <=> Candidate(j))
    BY <1>2 DEF Exists, Candidate
  <2>2. untouched \subseteq Keys /\ newest.mod \in Int
    BY Numbers DEF TypeOK, SourceTypeOK
  <2>3. \A j \in Keys : Candidate(j) => store[j].mod \in Nat /\ store[j].mod <= now
    BY Numbers DEF Candidate, FetchInv, AgeInv
  <2>4. CASE Candidate(k) /\ store[k].mod > newest.mod
    <3>1. newest' = [key |-> k, mod |-> store[k].mod]
      BY <1>2, <2>4 DEF LookAt
    <3>2. newest'.key = k /\ newest'.mod = store[k].mod
      BY <3>1
    <3>3. ASSUME NEW j \in untouched', j \notin todo', Candidate(j)'
          PROVE  store'[j].mod <= newest'.mod
      <4>1. Candidate(j) /\ j \in Keys
        BY <1>2, <2>1, <2>2, <3>3
      <4>2. j = k \/ store[j].mod <= newest.mod
        BY <1>2, <3>3, <4>1 DEF FetchInv, ListInv
      <4> QED
        BY <1>1, <1>2, <2>2, <2>3, <2>4, <3>2, <4>1, <4>2
    <3>4. newest'.mod <= now' /\ newest'.mod <= store'[newest'.key].mod
      BY <1>1, <1>2, <2>3, <2>4, <3>2
    <3> QED
      BY <1>2, <3>3, <3>4 DEF ListInv
  <2>5. CASE ~(Candidate(k) /\ store[k].mod > newest.mod)
    <3>1. newest' = newest
      BY <1>2, <2>5 DEF LookAt
    <3>2. Candidate(k) => store[k].mod <= newest.mod
      BY <1>1, <2>2, <2>3, <2>5
    <3> QED
      BY <1>2, <2>1, <3>1, <3>2 DEF FetchInv, ListInv
  <2> QED
    BY <2>4, <2>5
<1> QED
  BY <1>3, <1>4, <1>5 DEF FetchInv

\* The choice is made, or was never to be made.
LEMMA ListDoneStep ==
    ASSUME TypeOK, FetchInv, (ListDone /\ ~Fail) \/ NoListing, UNCHANGED <<now, from, input>>
    PROVE  FetchInv'
<1>1. /\ pc \in {"start", "list"} /\ pc' = "open"
      /\ from.select => todo = {} /\ newest # NoKey /\ key' = newest.key
      /\ UNCHANGED <<todo, newest, untouched, fi, opened, enc, comp, body, backup, store, tmp>>
  BY DEF ListDone, NoListing, listVars, openVars, readVars
<1>2. PlaceInv' /\ TmpInv' /\ AgeInv' /\ ClaimInv' /\ BodyInv'
  BY <1>1, EarlyStep
<1>3. ListInv'
  BY <1>1, ListFrame
<1>4. ChosenInv'
  BY <1>1 DEF ChosenInv, Reading, Returned
<1> QED
  BY <1>2, <1>3, <1>4 DEF FetchInv

\* From the opening to the copy: the parts that only depend on where Fetch is.
LEMMA ReadingStep ==
    ASSUME TypeOK, FetchInv, pc \in {"open", "read", "decrypt", "decompress"},
           pc' \in {"read", "decrypt", "decompress", "layers"},
           pc' = "read" => from.type = "file",
           pc' # "read" => opened' \in Versions,
           UNCHANGED <<now, store, from, todo, newest, untouched, key, tmp, backup, input>>
    PROVE  /\ PlaceInv' /\ TmpInv' /\ ClaimInv' /\ ListInv'
           /\ tmp' = -1 /\ ~Returned'
<1>1. ~Returned' /\ ~Returned /\ tmp = -1 /\ (Reading' => pc' # "read")
  BY DEF Reading, Returned, FetchInv, TmpInv
<1>2. PlaceInv' /\ TmpInv'
  BY <1>1 DEF FetchInv, PlaceInv, TmpInv
<1>3. ClaimInv'
  BY <1>1 DEF FetchInv, ClaimInv
<1>4. ListInv'
  BY ListFrame
<1> QED
  BY <1>1, <1>2, <1>3, <1>4

\* os.Stat dates the file.
LEMMA StatFileStep ==
    ASSUME TypeOK, FetchInv, StatFile, ~Fail, UNCHANGED <<now, from, input>>
    PROVE  FetchInv'
<1>1. /\ pc = "open" /\ pc' = "read" /\ from.type = "file" /\ Exists(key)
      /\ fi' = [mod |-> store[key].mod, size |-> store[key].stored]
      /\ UNCHANGED <<todo, newest, untouched, key, opened, enc, comp, body, backup, store, tmp>>
  BY DEF StatFile, listVars, readVars
<1>2. fi'.mod = store[key].mod /\ store[key].mod \in Nat /\ key \in Keys
  BY <1>1, Numbers
<1>3. /\ PlaceInv' /\ TmpInv' /\ ClaimInv' /\ ListInv'
      /\ tmp' = -1 /\ ~Returned'
  BY <1>1, ReadingStep
<1>4. ~Reading'
  BY <1>1 DEF Reading
<1>5. AgeInv'
  BY <1>1, <1>2, <1>3, <1>4 DEF FetchInv, AgeInv, Exists
<1>6. BodyInv'
  <2>1. PlainCap' = PlainCap /\ PlainCap \in Int
    BY FromFrame, Numbers
  <2> QED
    BY <1>1, <1>3, <1>4, <2>1 DEF BodyInv
<1>7. ChosenInv'
  <2>1. from.select => todo = {} /\ newest # NoKey /\ key = newest.key
    BY <1>1 DEF FetchInv, ChosenInv
  <2>2. from.select => newest.mod <= fi'.mod
    BY <1>1, <1>2, <2>1 DEF FetchInv, ListInv
  <2> QED
    BY <1>1, <1>3, <1>4, <2>1, <2>2 DEF ChosenInv
<1> QED
  BY <1>3, <1>5, <1>6, <1>7 DEF FetchInv

\* What is opened is not older than what Stat saw, nor than what was selected.
LEMMA OpenStep ==
    ASSUME TypeOK, FetchInv, OpenFile \/ GetObject, ~Fail, UNCHANGED <<now, from, input>>
    PROVE  FetchInv'
<1>1. /\ pc' = "decrypt" /\ Exists(key) /\ opened' = store[key]
      /\ \/ pc = "read" /\ from.type = "file"
         \/ pc = "open" /\ from.type = "s3" /\ (TooLarge(store[key].stored) => body' = "broken")
      /\ UNCHANGED <<todo, newest, untouched, key, fi, enc, comp, backup, store, tmp>>
  BY DEF OpenFile, GetObject, listVars, FetchInv, PlaceInv
<1>2. key \in Keys /\ store[key] \in Versions
  BY <1>1, Numbers
<1>3. /\ PlaceInv' /\ TmpInv' /\ ClaimInv' /\ ListInv'
      /\ tmp' = -1 /\ ~Returned'
  BY <1>1, <1>2, ReadingStep
<1>4. AgeInv'
  BY <1>1, <1>2, <1>3 DEF FetchInv, AgeInv, Exists
<1>5. BodyInv'
  <2>1. PlainCap' = PlainCap /\ PlainCap \in Int /\ \A n : TooLarge(n)' <=> TooLarge(n)
    BY FromFrame, Numbers
  <2> QED
    BY <1>1, <1>3, <2>1 DEF BodyInv
<1>6. ChosenInv'
  <2>1. from.select => todo = {} /\ newest # NoKey /\ key = newest.key
    BY <1>1 DEF FetchInv, ChosenInv
  <2>2. from.select => newest.mod <= opened'.mod
    BY <1>1, <1>2, <2>1 DEF FetchInv, ListInv
  <2>3. from.select /\ from.type = "file" => newest.mod <= fi.mod
    BY <1>1 DEF FetchInv, ChosenInv
  <2> QED
    BY <1>1, <1>3, <2>1, <2>2, <2>3 DEF ChosenInv
<1> QED
  BY <1>3, <1>4, <1>5, <1>6 DEF FetchInv

\* The layers: a stream that was broken stays broken, and one that comes out of
\* decrypt whole was encrypted with what the spec says.
LEMMA LayerStep ==
    ASSUME TypeOK, FetchInv, Decrypt \/ Decompress, ~Fail, UNCHANGED <<now, from, input>>
    PROVE  FetchInv'
<1>1. /\ pc \in {"decrypt", "decompress"} /\ pc' \in {"decompress", "layers"}
      /\ UNCHANGED <<todo, newest, untouched, key, fi, opened, backup, store, tmp>>
  BY DEF Decrypt, Decompress, listVars, openVars
<1>2. body = "broken" => body' = "broken"
  BY DEF Decrypt, Decompress, Decrypted
<1>3. body' = "whole" => enc' = opened.enc
  <2>1. CASE Decrypt
    BY <2>1 DEF Decrypt, Decrypted
  <2>2. CASE Decompress
    <3>1. pc = "decompress" /\ enc' = enc /\ (body' = "whole" => body # "broken")
      BY <2>2 DEF Decompress
    <3>2. body \in {"whole", "broken"}
      BY DEF TypeOK, SourceTypeOK
    <3> QED
      BY <3>1, <3>2 DEF FetchInv, BodyInv
  <2> QED
    BY <2>1, <2>2
<1>4. opened \in Versions /\ Reading /\ Reading'
  BY <1>1 DEF FetchInv, PlaceInv, Reading
<1>5. /\ PlaceInv' /\ TmpInv' /\ ClaimInv' /\ ListInv'
      /\ tmp' = -1 /\ ~Returned'
  BY <1>1, <1>4, ReadingStep
<1>6. AgeInv'
  BY <1>1, <1>4, <1>5 DEF FetchInv, AgeInv, Exists
<1>7. BodyInv'
  <2>1. PlainCap' = PlainCap /\ PlainCap \in Int /\ \A n : TooLarge(n)' <=> TooLarge(n)
    BY FromFrame, Numbers
  <2>2. Reading' /\ from.type = "s3" /\ TooLarge(opened.stored) => body' = "broken"
    BY <1>2, <1>4 DEF FetchInv, BodyInv
  <2> QED
    BY <1>1, <1>3, <1>5, <2>1, <2>2 DEF BodyInv
<1>8. ChosenInv'
  BY <1>1, <1>4, <1>5 DEF FetchInv, ChosenInv
<1> QED
  BY <1>5, <1>6, <1>7, <1>8 DEF FetchInv

\* A local file is handed out in place, dated by Stat.
LEMMA ReturnInPlaceStep ==
    ASSUME TypeOK, FetchInv, ReturnInPlace, UNCHANGED <<now, from, input>>
    PROVE  FetchInv'
<1>1. /\ pc = "layers" /\ pc' = "ok" /\ from.type = "file"
      /\ backup' = [path |-> "source", cleanup |-> "none", modTime |-> fi.mod, size |-> fi.size]
      /\ UNCHANGED <<todo, newest, untouched, key, fi, opened, enc, comp, body, store, tmp>>
  BY DEF ReturnInPlace, listVars, openVars, readVars
<1>2. backup'.path = "source" /\ backup'.cleanup = "none" /\ backup'.modTime = fi.mod
  BY <1>1
<1>3. Reading /\ ~Reading' /\ Returned' /\ ~Returned /\ tmp = -1
  BY <1>1 DEF Reading, Returned, FetchInv, TmpInv
<1>4. PlaceInv' /\ TmpInv'
  BY <1>1, <1>2, <1>3 DEF PlaceInv, TmpInv
<1>5. AgeInv'
  BY <1>1, <1>2, <1>3 DEF FetchInv, AgeInv, Exists
<1>6. ClaimInv'
  BY <1>1, <1>2, <1>3 DEF FetchInv, ClaimInv
<1>7. BodyInv'
  <2>1. PlainCap' = PlainCap /\ PlainCap \in Int
    BY FromFrame, Numbers
  <2> QED
    BY <1>1, <1>2, <1>3, <2>1 DEF BodyInv
<1>8. ListInv'
  BY <1>1, ListFrame
<1>9. ChosenInv'
  BY <1>1, <1>2, <1>3 DEF FetchInv, ChosenInv
<1> QED
  BY <1>4, <1>5, <1>6, <1>7, <1>8, <1>9 DEF FetchInv

\* An empty temp file.
LEMMA SpoolCreateStep ==
    ASSUME TypeOK, FetchInv, SpoolCreate, ~Fail, UNCHANGED <<now, from, input>>
    PROVE  FetchInv'
<1>1. /\ pc = "layers" /\ pc' = "copy" /\ tmp' = 0
      /\ UNCHANGED <<todo, newest, untouched, key, fi, opened, enc, comp, body, store, backup>>
  BY DEF SpoolCreate, listVars, openVars, readVars
<1>2. Reading /\ Reading' /\ ~Returned' /\ ~Returned
  BY <1>1 DEF Reading, Returned
<1>3. PlaceInv' /\ TmpInv'
  BY <1>1, <1>2 DEF FetchInv, PlaceInv, TmpInv
<1>4. AgeInv'
  BY <1>1, <1>2 DEF FetchInv, AgeInv, Exists
<1>5. ClaimInv'
  BY <1>1, <1>2 DEF FetchInv, ClaimInv
<1>6. BodyInv'
  <2>1. PlainCap' = PlainCap /\ PlainCap \in Int /\ \A n : TooLarge(n)' <=> TooLarge(n)
    BY FromFrame, Numbers
  <2> QED
    BY <1>1, <1>2, <2>1 DEF FetchInv, BodyInv
<1>7. ListInv'
  BY <1>1, ListFrame
<1>8. ChosenInv'
  BY <1>1, <1>2 DEF FetchInv, ChosenInv
<1> QED
  BY <1>3, <1>4, <1>5, <1>6, <1>7, <1>8 DEF FetchInv

\* The copy: without an error the temp file holds the whole artifact, dated as
\* the artifact was; with one, it waits to be removed.
LEMMA SpoolCopyStep ==
    ASSUME TypeOK, FetchInv, SpoolCopy, UNCHANGED <<now, from, input>>
    PROVE  FetchInv'
<1>1. /\ pc = "copy"
      /\ UNCHANGED <<todo, newest, untouched, key, fi, opened, enc, comp, body, store>>
  BY DEF SpoolCopy, listVars, openVars, readVars
<1>2. Reading /\ ~Returned /\ opened \in Versions
  BY <1>1 DEF Reading, Returned, FetchInv, PlaceInv
<1>3. PICK s \in Streams :
        LET c == copyLimited(s, uncompressedLimit) IN
          /\ tmp' = c.n
          /\ \/ /\ ~c.err
                /\ backup' = [path |-> "tmp", cleanup |-> "tmp", modTime |-> modTime,
                             size |-> IF from.type = "file" THEN fi.size ELSE opened.stored]
                /\ pc' = "ok"
             \/ pc' = "spool" /\ UNCHANGED backup
  BY DEF SpoolCopy
<1> DEFINE c == copyLimited(s, uncompressedLimit)
<1>4. /\ tmp' = c.n
      /\ \/ /\ ~c.err
            /\ backup' = [path |-> "tmp", cleanup |-> "tmp", modTime |-> modTime,
                         size |-> IF from.type = "file" THEN fi.size ELSE opened.stored]
            /\ pc' = "ok"
         \/ pc' = "spool" /\ UNCHANGED backup
  BY <1>3
<1>5. /\ c.n \in Nat
      /\ LimitFits /\ PlainCap > 0 => c.n <= PlainCap + 1
      /\ LimitFits /\ ~c.err =>
           /\ c.n = opened.plain /\ body = "whole"
           /\ PlainCap > 0 => c.n <= PlainCap
  BY <1>2, CopyFacts, Numbers
<1> HIDE DEF c
<1>6. PlainCap' = PlainCap /\ (LimitFits' <=> LimitFits) /\ \A n : TooLarge(n)' <=> TooLarge(n)
  BY FromFrame
<1>7. Dated' <=> Dated
  BY FromFrame
<1>8. CASE pc' = "spool" /\ UNCHANGED backup
  <2>1. Reading' /\ ~Returned'
    BY <1>8 DEF Reading, Returned
  <2>2. PlaceInv' /\ TmpInv'
    BY <1>1, <1>2, <1>8, <2>1 DEF FetchInv, PlaceInv, TmpInv
  <2>3. AgeInv'
    BY <1>1, <1>2, <1>8, <2>1 DEF FetchInv, AgeInv, Exists
  <2>4. ClaimInv'
    BY <1>1, <1>2, <1>8, <2>1 DEF FetchInv, ClaimInv
  <2>5. BodyInv'
    BY <1>1, <1>2, <1>4, <1>5, <1>6, <1>8, <2>1 DEF FetchInv, BodyInv
  <2>6. ListInv'
    BY <1>1, <1>8, ListFrame
  <2>7. ChosenInv'
    BY <1>1, <1>2, <1>8, <2>1 DEF FetchInv, ChosenInv
  <2> QED
    BY <2>2, <2>3, <2>4, <2>5, <2>6, <2>7 DEF FetchInv
<1>9. CASE /\ ~c.err /\ pc' = "ok"
           /\ backup' = [path |-> "tmp", cleanup |-> "tmp", modTime |-> modTime,
                         size |-> IF from.type = "file" THEN fi.size ELSE opened.stored]
  <2>1. ~Reading' /\ Returned'
    BY <1>9 DEF Reading, Returned
  <2>2. backup'.path = "tmp" /\ backup'.cleanup = "tmp" /\ backup'.modTime = modTime
    BY <1>9
  <2>3. PlaceInv' /\ TmpInv'
    BY <1>1, <1>2, <1>9, <2>1, <2>2 DEF FetchInv, PlaceInv, TmpInv
  <2>4. AgeInv'
    BY <1>1, <1>2, <1>9, <2>1, <2>2 DEF FetchInv, AgeInv, Exists
  <2>5. ClaimInv'
    <3>1. fi.mod \in Nat /\ opened.mod \in Nat /\ from.type \in {"file", "s3"}
      BY <1>2, Numbers
    <3>2. from.type = "file" => modTime = fi.mod /\ fi.mod <= opened.mod
      BY <1>2 DEF modTime, FetchInv, AgeInv
    <3>3. from.type # "file" /\ HasLastModified => modTime = opened.mod
      BY <3>1 DEF modTime
    <3>4. Dated => modTime <= opened.mod
      BY <3>1, <3>2, <3>3 DEF Dated
    <3>5. input = NoInput
      BY <1>2 DEF FetchInv, ClaimInv
    <3> QED
      BY <1>1, <1>7, <2>1, <2>2, <3>4, <3>5 DEF ClaimInv
  <2>6. BodyInv'
    <3>1. body = "whole" => enc = opened.enc
      BY <1>1 DEF FetchInv, BodyInv
    <3>2. body = "whole" /\ from.type = "s3" => ~TooLarge(opened.stored)
      BY <1>2 DEF FetchInv, BodyInv
    <3> QED
      BY <1>1, <1>4, <1>5, <1>6, <1>9, <2>1, <3>1, <3>2 DEF BodyInv
  <2>7. ListInv'
    BY <1>1, <1>9, ListFrame
  <2>8. ChosenInv'
    <3> SUFFICES ASSUME from.select
                 PROVE  todo = {} /\ newest # NoKey /\ key = newest.key
                        /\ (from.type = "file" => newest.mod <= fi.mod)
                        /\ newest.mod <= modTime
      BY <1>1, <2>1, <2>2 DEF ChosenInv
    <3>1. /\ todo = {} /\ newest # NoKey /\ key = newest.key
          /\ from.type = "file" => newest.mod <= fi.mod
          /\ newest.mod <= opened.mod
      BY <1>1, <1>2 DEF FetchInv, ChosenInv
    <3>2. newest.mod <= now
      BY DEF FetchInv, ListInv
    <3>3. newest.mod <= modTime
      BY <3>1, <3>2 DEF modTime
    <3> QED
      BY <3>1, <3>3
  <2> QED
    BY <2>3, <2>4, <2>5, <2>6, <2>7, <2>8 DEF FetchInv
<1> QED
  BY <1>4, <1>8, <1>9

\* Fetch keeps the invariant: an error is a Fail that finds no temp file or
\* removes it.
LEMMA FetchKeeps ==
    ASSUME TypeOK, FetchInv, FetchStep, UNCHANGED input
    PROVE  FetchInv'
<1>a. UNCHANGED <<now, from, input>>
  BY DEF FetchStep
<1>1. CASE Fail
  <2>1. ~Returned /\ UNCHANGED store
    BY <1>1 DEF FetchStep, fetchFile, StartListing, ListNext, ListDone, NoListing, StatFile,
       OpenFile, ReturnInPlace, GetObject, Decrypt, Decompress, SpoolCreate, SpoolCopy, SpoolFailed,
       Fail, Returned
  <2>2. tmp' = -1 \/ (tmp' = tmp /\ pc \notin {"copy", "spool", "ok"})
    BY <1>1 DEF FetchStep, fetchFile, StartListing, ListNext, ListDone, NoListing, StatFile,
       OpenFile, ReturnInPlace, GetObject, Decrypt, Decompress, SpoolCreate, SpoolCopy, SpoolFailed,
       Fail
  <2>3. tmp' = -1
    BY <2>2 DEF FetchInv, TmpInv
  <2> QED
    BY <1>a, <1>1, <2>1, <2>3, FailStep
<1>2. CASE ~Fail
  <2>1. ~SpoolFailed
    BY <1>2 DEF SpoolFailed
  <2> QED
    BY <1>a, <1>2, <2>1, StartListingStep, ListNextStep, ListDoneStep, StatFileStep, OpenStep,
       LayerStep, ReturnInPlaceStep, SpoolCreateStep, SpoolCopyStep DEF FetchStep, fetchFile
<1> QED
  BY <1>1, <1>2

\* Cleanup removes the copy and never the source.
LEMMA CleanupStep ==
    ASSUME TypeOK, FetchInv, Cleanup, UNCHANGED <<now, from, input>>
    PROVE  FetchInv' /\ UNCHANGED store
<1>1. /\ pc = "ok" /\ pc' = "cleaned"
      /\ UNCHANGED <<todo, newest, untouched, key, fi, opened, enc, comp, body, backup>>
  BY DEF Cleanup, listVars, openVars, readVars
<1>2. store' = store /\ tmp' = -1
  BY <1>1 DEF Cleanup, Remove, FetchInv, TmpInv
<1>3. ~Reading' /\ Returned' /\ Returned /\ ~Reading
  BY <1>1 DEF Reading, Returned
<1>4. PlaceInv' /\ TmpInv'
  BY <1>1, <1>2, <1>3 DEF FetchInv, PlaceInv, TmpInv
<1>5. AgeInv'
  BY <1>1, <1>2, <1>3 DEF FetchInv, AgeInv, Exists
<1>6. ClaimInv'
  <2>1. Dated' <=> Dated
    BY FromFrame
  <2> QED
    BY <1>1, <1>3, <2>1 DEF FetchInv, ClaimInv
<1>7. BodyInv'
  <2>1. PlainCap' = PlainCap /\ PlainCap \in Int
    BY FromFrame, Numbers
  <2> QED
    BY <1>1, <1>2, <1>3, <2>1 DEF BodyInv
<1>8. ListInv'
  BY <1>1, <1>2, ListFrame
<1>9. ChosenInv'
  BY <1>1, <1>3 DEF FetchInv, ChosenInv
<1> QED
  BY <1>2, <1>4, <1>5, <1>6, <1>7, <1>8, <1>9 DEF FetchInv

\* A backup job stores or prunes: what it stores is dated now, and a name it has
\* touched is no longer counted on.
LEMMA BackupJobStep ==
    ASSUME TypeOK, FetchInv, BackupJob, UNCHANGED input
    PROVE  FetchInv'
<1>1. UNCHANGED <<now, from, pc, todo, newest, key, fi, opened, enc, comp, body, tmp, backup, input>>
  BY DEF BackupJob, openVars, readVars
<1>2. PICK k \in Keys \ Directories :
        /\ untouched' = untouched \ {k}
        /\ \/ \E b \in Objects : store' = [store EXCEPT ![k] = VersionOf(b, now)]
           \/ store' = [store EXCEPT ![k] = NoObject]
  BY DEF BackupJob
<1>3. /\ store \in [Keys -> Versions \cup {NoObject}] /\ now \in Nat /\ untouched \subseteq Keys
      /\ key \in Keys /\ fi.mod \in Nat /\ newest.mod \in Int
      /\ newest # NoKey => newest.key \in Keys
  BY Numbers DEF TypeOK, SourceTypeOK
<1>4. \A j \in Keys : j # k => store'[j] = store[j]
  BY <1>2, <1>3
<1>5. Exists(k)' => store'[k].mod = now
  <2>1. CASE store' = [store EXCEPT ![k] = NoObject]
    BY <1>3, <2>1 DEF Exists
  <2>2. CASE \E b \in Objects : store' = [store EXCEPT ![k] = VersionOf(b, now)]
    BY <1>3, <2>2, VersionFacts
  <2> QED
    BY <1>2, <2>1, <2>2
<1>6. \A j \in Keys : j # k => (Exists(j)' <=> Exists(j)) /\ (Candidate(j)' <=> Candidate(j))
  BY <1>4 DEF Exists, Candidate
<1>7. (Reading' <=> Reading) /\ (Returned' <=> Returned)
  BY <1>1 DEF Reading, Returned
<1>8. AgeInv'
  <2>1. \A j \in Keys : Exists(j)' => store'[j].mod <= now
    BY <1>3, <1>4, <1>5, <1>6 DEF FetchInv, AgeInv
  <2>2. from.type = "file" /\ (pc = "read" \/ Reading \/ Returned)
          => (store'[key] # NoObject => fi.mod <= store'[key].mod)
    <3>1. CASE key = k
      BY <1>3, <1>5, <3>1 DEF FetchInv, AgeInv, Exists
    <3>2. CASE key # k
      BY <1>3, <1>4, <3>2 DEF FetchInv, AgeInv, Exists
    <3> QED
      BY <3>1, <3>2
  <2> QED
    BY <1>1, <1>7, <2>1, <2>2 DEF FetchInv, AgeInv, Exists
<1>9. ListInv'
  <2>1. \A j \in untouched' : j \in untouched /\ j # k /\ j \in Keys
    BY <1>2, <1>3
  <2>2. \A j \in untouched' : j \notin todo /\ Candidate(j)' => store'[j].mod <= newest.mod
    BY <1>4, <1>6, <2>1 DEF FetchInv, ListInv
  <2>3. newest # NoKey /\ store'[newest.key] # NoObject => newest.mod <= store'[newest.key].mod
    <3>1. CASE newest.key = k
      BY <1>3, <1>5, <3>1 DEF FetchInv, ListInv, Exists
    <3>2. CASE newest.key # k
      BY <1>3, <1>4, <3>2 DEF FetchInv, ListInv, Exists
    <3> QED
      BY <3>1, <3>2
  <2> QED
    BY <1>1, <2>2, <2>3 DEF FetchInv, ListInv, Exists
<1>10. PlaceInv' /\ TmpInv' /\ ChosenInv'
  BY <1>1, <1>7 DEF FetchInv, PlaceInv, TmpInv, ChosenInv
<1>11. /\ PlainCap' = PlainCap /\ (LimitFits' <=> LimitFits) /\ (Dated' <=> Dated)
       /\ \A n : TooLarge(n)' <=> TooLarge(n)
  BY <1>1, FromFrame
<1>12. ClaimInv' /\ BodyInv'
  BY <1>1, <1>7, <1>11 DEF FetchInv, ClaimInv, BodyInv
<1> QED
  BY <1>8, <1>9, <1>10, <1>12 DEF FetchInv

\* Time passes.
LEMMA TickStep ==
    ASSUME TypeOK, FetchInv, Tick, UNCHANGED input
    PROVE  FetchInv'
<1>1. /\ now' = now + 1
      /\ UNCHANGED <<store, from, pc, todo, newest, untouched, key, fi, opened, enc, comp, body,
                     tmp, backup, input>>
  BY DEF Tick, listVars, openVars, readVars
<1>2. /\ now \in Nat /\ fi.mod \in Nat /\ newest.mod \in Int
      /\ \A k \in Keys : Exists(k) => store[k].mod \in Nat
  BY Numbers
<1>3. (Reading' <=> Reading) /\ (Returned' <=> Returned)
  BY <1>1 DEF Reading, Returned
<1>4. \A k : (Exists(k)' <=> Exists(k)) /\ (Candidate(k)' <=> Candidate(k))
  BY <1>1 DEF Exists, Candidate
<1>5. AgeInv' /\ ListInv'
  <2>1. \A k \in Keys : Exists(k) => store[k].mod <= now + 1
    BY <1>2 DEF FetchInv, AgeInv
  <2>2. fi.mod <= now + 1 /\ newest.mod <= now + 1
    BY <1>2 DEF FetchInv, AgeInv, ListInv
  <2>3. AgeInv'
    BY <1>1, <1>3, <1>4, <2>1, <2>2 DEF FetchInv, AgeInv
  <2>4. ListInv'
    BY <1>1, <1>4, <2>2 DEF FetchInv, ListInv
  <2> QED
    BY <2>3, <2>4
<1>6. PlaceInv' /\ TmpInv' /\ ChosenInv'
  BY <1>1, <1>3 DEF FetchInv, PlaceInv, TmpInv, ChosenInv
<1>7. /\ PlainCap' = PlainCap /\ (LimitFits' <=> LimitFits) /\ (Dated' <=> Dated)
      /\ \A n : TooLarge(n)' <=> TooLarge(n)
  BY <1>1, FromFrame
<1>8. ClaimInv' /\ BodyInv'
  BY <1>1, <1>3, <1>7 DEF FetchInv, ClaimInv, BodyInv
<1> QED
  BY <1>5, <1>6, <1>8 DEF FetchInv

-----------------------------------------------------------------------------
(* The invariant.                                                          *)

\* The first state satisfies the invariant.
LEMMA InitInv == Init => IInv
<1> SUFFICES ASSUME Init PROVE IInv
  OBVIOUS
<1>1. TypeOK
  BY TypeInit
<1>2. SourceInit /\ RestoreInit
  BY Zenon DEF Init
<1>3. /\ now = 1 /\ pc = "start" /\ todo = {} /\ newest = NoKey /\ untouched = {}
      /\ fi = [mod |-> 0, size |-> 0] /\ opened = NoObject /\ tmp = -1 /\ backup = NoBackup
      /\ store \in [Keys -> VersionsAt(0) \cup VersionsAt(1) \cup {NoObject}]
  BY <1>2, Zenon DEF SourceInit
<1>4. /\ rpc = "idle" /\ input = NoInput /\ startAt = 0
      /\ cluster = "cold" /\ log = {} /\ res = Running
  BY <1>2 DEF RestoreInit
<1>5. ~Reading /\ ~Returned
  BY <1>3 DEF Reading, Returned
<1>6. fi.mod = 0 /\ newest.mod = -1 /\ backup.cleanup = "none" /\ res.step = "none"
  BY <1>3, <1>4 DEF NoKey, NoBackup, Running
<1>7. \A k \in Keys : Exists(k) => store[k].mod <= now
  <2>1. \A v \in VersionsAt(0) \cup VersionsAt(1) : v.mod \in {0, 1}
    BY VersionFacts DEF VersionsAt
  <2> QED
    BY <1>3, <2>1 DEF Exists
<1>8. PlaceInv /\ TmpInv /\ AgeInv /\ ClaimInv /\ ListInv /\ ChosenInv
  BY <1>3, <1>4, <1>5, <1>6, <1>7
     DEF PlaceInv, TmpInv, AgeInv, ClaimInv, ListInv, ChosenInv
<1>9. BodyInv
  <2>1. PlainCap \in Int
    BY <1>1, Numbers
  <2> QED
    BY <1>3, <1>5, <2>1 DEF BodyInv
<1>10. EngineInv
  BY <1>3, <1>4, <1>6 DEF EngineInv, RestoredMeansServing, LinesAreTrue
<1> QED
  BY <1>1, <1>8, <1>9, <1>10 DEF IInv, FetchInv

\* What the driver opens is not older than the Backup claims.
LEMMA OpenedIsNotOlder ==
    ASSUME TypeOK, FetchInv, pc = "ok", Content # NoInput, Dated
    PROVE  backup.modTime <= Content.mod
<1>1. Returned /\ NoInput = NoObject
  BY VersionFacts DEF Returned
<1>2. CASE backup.path = "tmp"
  BY <1>1, <1>2 DEF Content, FetchInv, ClaimInv
<1>3. CASE backup.path = "source"
  <2>1. from.type = "file" /\ backup.modTime = fi.mod
    BY <1>1, <1>3 DEF FetchInv, ClaimInv
  <2>2. Content = store[key] /\ Exists(key)
    BY <1>1, <1>3 DEF Content, Exists
  <2> QED
    BY <1>1, <2>1, <2>2 DEF FetchInv, AgeInv
<1> QED
  BY <1>2, <1>3 DEF FetchInv, TmpInv

\* Every step keeps the invariant.
LEMMA InvStep == IInv /\ [Next]_vars => IInv'
<1> SUFFICES ASSUME IInv, [Next]_vars PROVE IInv'
  OBVIOUS
<1>a. TypeOK /\ FetchInv /\ EngineInv /\ now \in Nat
  BY DEF IInv, TypeOK, SourceTypeOK
<1>b. TypeOK'
  BY TypeStep
<1>1. CASE Fetch
  <2>1. FetchStep /\ UNCHANGED restoreVars
    BY <1>1 DEF Fetch
  <2>2. UNCHANGED input /\ now' = now
    BY <2>1 DEF restoreVars, FetchStep
  <2> QED
    BY <1>a, <1>b, <2>1, <2>2, FetchKeeps, EngineFrame DEF IInv
<1>2. CASE Restore
  <2>1. pc = "ok" /\ RestoreStep(now, ctxDone, Content) /\ UNCHANGED sourceVars
    BY <1>2 DEF Restore
  <2>2. UNCHANGED now
    BY <2>1 DEF sourceVars
  <2>3. input' = input \/ (Content # NoInput /\ input' = Content)
    BY <2>1 DEF RestoreStep, Begin, Preflight, OpenBackup, WriteConfig, Load, Untar,
       PrepareDirectory, StartCluster, PollCluster, GrepLog
  <2>4. \/ input' = input
        \/ Returned /\ (Dated => backup.modTime <= input'.mod)
    BY <1>a, <2>1, <2>3, OpenedIsNotOlder DEF Returned
  <2>5. FetchInv'
    BY <1>a, <2>1, <2>4, FetchFrame
  <2>6. EngineInv'
    BY <1>a, <2>1, <2>2, EngineStep
  <2> QED
    BY <1>b, <2>5, <2>6 DEF IInv
<1>3. CASE CleanupBackup
  <2>1. Cleanup /\ UNCHANGED <<now, from, input>> /\ UNCHANGED restoreVars
    BY <1>3 DEF CleanupBackup, restoreVars
  <2> QED
    BY <1>a, <1>b, <2>1, CleanupStep, EngineFrame DEF IInv
<1>4. CASE BackupJob /\ UNCHANGED <<restoreVars, ctxDone>>
  <2>1. UNCHANGED <<now, input>> /\ UNCHANGED restoreVars
    BY <1>4 DEF BackupJob, restoreVars
  <2> QED
    BY <1>a, <1>b, <1>4, <2>1, BackupJobStep, EngineFrame DEF IInv
<1>5. CASE Tick /\ UNCHANGED <<restoreVars, ctxDone>>
  <2>1. now' = now + 1 /\ UNCHANGED input /\ UNCHANGED restoreVars
    BY <1>5 DEF Tick, restoreVars
  <2> QED
    BY <1>a, <1>b, <1>5, <2>1, TickStep, EngineFrame DEF IInv
<1>6. CASE ClusterMoves /\ UNCHANGED <<sourceVars, ctxDone>>
  <2>1. UNCHANGED <<now, input>> /\ UNCHANGED sourceVars
    BY <1>6 DEF ClusterMoves, sourceVars
  <2> QED
    BY <1>a, <1>b, <1>6, <2>1, FetchFrame, ClusterMovesStep DEF IInv
<1>7. CASE UNCHANGED <<sourceVars, restoreVars>>
  <2>1. UNCHANGED sourceVars /\ UNCHANGED restoreVars /\ UNCHANGED <<now, input>>
    BY <1>7 DEF sourceVars, restoreVars
  <2> QED
    BY <1>a, <1>b, <2>1, FetchFrame, EngineFrame DEF IInv
<1> QED
  BY <1>1, <1>2, <1>3, <1>4, <1>5, <1>6, <1>7 DEF Next, Environment, vars

\* The invariant holds in every state.
LEMMA Invariance == Spec => []IInv
BY InitInv, InvStep, PTL DEF Spec

-----------------------------------------------------------------------------
(* Theorems.                                                               *)

\* The types hold in every state of a fetch and restore.
THEOREM TypeCorrect == Spec => []TypeOK
<1>1. IInv => TypeOK
  BY DEF IInv
<1> QED
  BY <1>1, Invariance, PTL

\* Whichever step of Fetch fails, it leaves no plaintext on disk, and neither
\* does Cleanup.
THEOREM NoPlaintextIsLeft == Spec => []NoPlaintextLeft
<1>1. IInv => NoPlaintextLeft
  BY DEF IInv, FetchInv, TmpInv, NoPlaintextLeft
<1> QED
  BY <1>1, Invariance, PTL

\* A copy that Fetch returns without an error is the whole artifact, decrypted,
\* as long as the limit on it fits into the program's arithmetic
\* (MCSourceLimit.cfg shows what happens at the largest number).
THEOREM CopyIsComplete == Spec => [](LimitFits => CopyIsWhole)
<1>1. IInv => (LimitFits => CopyIsWhole)
  BY DEF IInv, FetchInv, BodyInv, CopyIsWhole
<1> QED
  BY <1>1, Invariance, PTL

\* The disk guards hold for every size of artifact, whatever it announces and
\* however far it expands, as long as the limit fits.
THEOREM CapsAreKept == Spec => [](LimitFits => CapsHold)
<1>1. IInv => (LimitFits => CapsHold)
  BY DEF IInv, FetchInv, BodyInv, CapsHold
<1> QED
  BY <1>1, Invariance, PTL

\* Fetch returns a backup at least as new as every eligible one that has been
\* there since the listing began, for any number of names and any number of
\* writes and removals during the listing and after it.
THEOREM NewestIsFetched == Spec => []LatestWins
<1>1. IInv => LatestWins
  <2> SUFFICES ASSUME IInv, pc = "ok", from.select, NEW k \in untouched, Candidate(k)
               PROVE  store[k].mod <= backup.modTime
    BY DEF LatestWins
  <2>1. TypeOK /\ FetchInv /\ k \in Keys /\ Returned
    BY DEF IInv, TypeOK, SourceTypeOK, Returned
  <2>2. store[k].mod \in Nat /\ newest.mod \in Int /\ backup.modTime \in Nat
    BY <2>1, Numbers DEF Candidate
  <2>3. todo = {} /\ newest.mod <= backup.modTime
    BY <2>1 DEF FetchInv, ChosenInv
  <2>4. store[k].mod <= newest.mod
    BY <2>1, <2>3 DEF FetchInv, ListInv
  <2> QED
    BY <2>2, <2>3, <2>4
<1> QED
  BY <1>1, Invariance, PTL

\* What the driver reads is never older than the Backup's ModTime, on which the
\* freshness verdict rests, for local files and for stores that date what they
\* send (for the others the code takes the time of the fetch).
THEOREM ClaimIsNotNewer == Spec => [](Dated => ClaimNotNewer)
<1>1. IInv => (Dated => ClaimNotNewer)
  BY DEF IInv, FetchInv, ClaimInv, ClaimNotNewer
<1> QED
  BY <1>1, Invariance, PTL

\* No step of a fetch, a restore or the cleanup changes what is stored.
THEOREM SourceIsReadOnly == Spec => SourceUntouched
<1>1. IInv /\ [Next]_vars => [Fetch \/ Restore \/ CleanupBackup => UNCHANGED store]_vars
  <2> SUFFICES ASSUME IInv, Fetch \/ Restore \/ CleanupBackup PROVE UNCHANGED store
    OBVIOUS
  <2>1. CASE Fetch
    BY <2>1 DEF Fetch, FetchStep, fetchFile, StartListing, ListNext, ListDone, NoListing, StatFile,
       OpenFile, ReturnInPlace, GetObject, Decrypt, Decompress, SpoolCreate, SpoolCopy, SpoolFailed
  <2>2. CASE Restore
    BY <2>2 DEF Restore, sourceVars
  <2>3. CASE CleanupBackup
    <3>1. Cleanup /\ UNCHANGED <<now, from, input>>
      BY <2>3 DEF CleanupBackup, restoreVars
    <3> QED
      BY <3>1, CleanupStep DEF IInv
  <2> QED
    BY <2>1, <2>2, <2>3
<1> QED
  BY <1>1, Invariance, PTL DEF Spec, SourceUntouched

\* A physical restore that Restore calls a success has a server that is up and
\* answers, although the command that started it said nothing of its fate.
THEOREM RestoredIsServing == Spec => []RestoredMeansServing
<1>1. IInv => RestoredMeansServing
  BY DEF IInv, EngineInv
<1> QED
  BY <1>1, Invariance, PTL

\* A physical restore is called a failed startup only if the server gave up or is
\* up and refuses the login of the poll, however often it was polled while it was
\* still recovering and whatever lines that left in its log.
THEOREM RecoveryIsWaitedFor == Spec => []RecoveryIsNotFailure
<1>1. IInv => RecoveryIsNotFailure
  BY DEF IInv, EngineInv, RecoveryIsNotFailure
<1> QED
  BY <1>1, Invariance, PTL
=============================================================================
