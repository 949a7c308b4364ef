---------------------------- MODULE TunnelImporter ----------------------------
(***************************************************************************)
(* Importing configuration files (TunnelImporter, ZipImporter) and the     *)
(* chain of addMultiple: the files are read side by side, and when all     *)
(* have been read the configurations are added one after the other, each   *)
(* from the completion handler of the one before.  ConfigNames are numbers *)
(* in their order; 0 is a name of white space only.                        *)
(***************************************************************************)
EXTENDS Integers, FiniteSets, SequencesExt, Filtering

CONSTANTS
  ConfigNames,  \* positive numbers
  FileLists     \* lists of files: [kind, opens, entries]

VARIABLES
  files,
  unread,      \* the places of files that are still being read
  configs,     \* what was read, in the order of the answers: names, or NoConfig
  fileError,   \* lastFileImportErrorText is set
  listed,      \* the names of the tunnels in the list
  tail,        \* configurations still to add
  stage,       \* reading, adding, asked (a save is outstanding), stuck, reported
  successful,  \* numberSuccessful
  addError,    \* lastError is set
  shown,       \* the alert: none, counts or error
  added        \* ghost: the names this import has added

importVars ==
  <<files, unread, configs, fileError, listed, tail, stage, successful, addError, shown, added>>

NoConfig  == -1
BlankName == 0

\* A file's entries: one for a .conf file, those of the archive for a .zip file; a
\* body that cannot be parsed is Bad.
Bad == "bad"
Entry(name, body) == [name |-> name, body |-> body]

Files ==
  [kind : {"conf", "zip"}, opens : BOOLEAN,
   entries : Seq([name : ConfigNames \cup {BlankName}, body : STRING])]

ASSUME ImportAssumption ==
  /\ ConfigNames \subseteq Nat \ {BlankName}
  /\ FileLists \subseteq Seq(Files)
  /\ \A list \in FileLists : \A k \in DOMAIN list : list[k].kind = "conf" => Len(list[k].entries) = 1

ConfigOf(entry) == IF entry.body = Bad THEN NoConfig ELSE entry.name

\* ZipImporter: entries without a name are left out, the rest is sorted by name, and
\* an entry that equals the one before becomes a nil.
Named(file) == {e \in Range(file.entries) : e.name # BlankName}

Inserted(entries, e) ==
  LET k == Cardinality({i \in DOMAIN entries : entries[i].name <= e.name})
  IN  SubSeq(entries, 1, k) \o <<e>> \o SubSeq(entries, k + 1, Len(entries))

Sorted(entries) ==
  LET sorted[n \in 0..Len(entries)] ==
        IF n = 0 THEN <<>> ELSE Inserted(sorted[n - 1], entries[n])
  IN  sorted[Len(entries)]

ZipEntries(file) == Sorted(Kept(file.entries, Named(file)))

ZipConfigs(file) ==
  LET entries == ZipEntries(file) IN
  [i \in DOMAIN entries |->
     IF i > 1 /\ entries[i] = entries[i - 1] THEN NoConfig ELSE ConfigOf(entries[i])]

Reads(file) == file.opens /\ (file.kind = "zip" => ZipEntries(file) # <<>>)

\* Mutant: a .conf file that cannot be read or parsed is passed over.
ReadConfigsOfGood(file) ==
  IF file.kind = "zip" THEN IF Reads(file) THEN ZipConfigs(file) ELSE <<>>
  ELSE IF Reads(file) /\ ConfigOf(file.entries[1]) # NoConfig THEN <<ConfigOf(file.entries[1])>> ELSE <<>>

\* A .conf file that cannot be read or parsed counts as a nil; an archive that cannot
\* be read does not count at all.
ReadConfigs(file) ==
  IF file.kind = "zip" THEN IF Reads(file) THEN ZipConfigs(file) ELSE <<>>
  ELSE <<IF Reads(file) THEN ConfigOf(file.entries[1]) ELSE NoConfig>>

IsError(file) == ~Reads(file) \/ (file.kind = "conf" /\ ConfigOf(file.entries[1]) = NoConfig)

ImportInit ==
  /\ files \in FileLists /\ unread = DOMAIN files
  /\ configs = <<>> /\ fileError = FALSE
  /\ listed \in SUBSET ConfigNames
  /\ tail = <<>> /\ stage = "reading" /\ successful = 0 /\ addError = FALSE
  /\ shown = "none" /\ added = <<>>

\* A file's answer, on the main queue; the last one starts the chain.
FileRead(k) ==
  /\ k \in unread /\ unread' = unread \ {k}
  /\ configs' = configs \o ReadConfigs(files[k])
  /\ fileError' = (fileError \/ IsError(files[k]))
  /\ IF unread' = {}
       THEN stage' = "adding" /\ tail' = Kept(configs', ConfigNames \cup {BlankName})
       ELSE UNCHANGED <<stage, tail>>
  /\ UNCHANGED <<files, listed, successful, addError, shown, added>>

\* One link of addMultiple: add refuses an empty name, does not answer at all when the
\* name is taken, or saves.
AddNext ==
  /\ stage = "adding" /\ tail # <<>>
  /\ IF Head(tail) = BlankName
       THEN tail' = Tail(tail) /\ addError' = TRUE /\ UNCHANGED stage
       ELSE /\ stage' = IF Head(tail) \in listed THEN "stuck" ELSE "asked"
            /\ UNCHANGED <<tail, addError>>
  /\ UNCHANGED <<files, unread, configs, fileError, listed, successful, shown, added>>

\* The error of an earlier link is forgotten.
AddReturns ==
  /\ stage = "asked" /\ stage' = "adding" /\ tail' = Tail(tail)
  /\ \/ /\ listed' = listed \cup {Head(tail)} /\ added' = Append(added, Head(tail))
        /\ successful' = successful + 1 /\ addError' = FALSE
     \/ addError' = TRUE /\ UNCHANGED <<listed, added, successful>>
  /\ UNCHANGED <<files, unread, configs, fileError, shown>>

\* The completion handler of addMultiple.
Report ==
  /\ stage = "adding" /\ tail = <<>> /\ stage' = "reported"
  /\ shown' = IF configs # <<>> /\ successful = Len(configs) THEN "none"
              ELSE IF Len(files) > 1 \/ (files[1].kind = "zip" /\ configs # <<>>) THEN "counts"
              ELSE IF fileError \/ addError THEN "error"
              ELSE "none"
  /\ UNCHANGED <<files, unread, configs, fileError, listed, tail, successful, addError, added>>

\* A tunnel is added outside the app, and listed by a reload.
TunnelAppears(n) ==
  /\ n \notin listed /\ listed' = listed \cup {n}
  /\ UNCHANGED <<files, unread, configs, fileError, tail, stage, successful, addError, shown, added>>

ImportNext ==
  \/ \E k \in unread : FileRead(k)
  \/ AddNext \/ AddReturns \/ Report
  \/ \E n \in ConfigNames : TunnelAppears(n)

ImportSpec == ImportInit /\ [][ImportNext]_importVars
-----------------------------------------------------------------------------
\* An import that ends without an alert has added everything its files held, each name
\* once, whatever fails in reading, parsing or saving and in whatever order the files are
\* read; the one exception is an archive among several files that cannot be read.  The
\* numbers shown are of tunnels that were added.
SilenceMeansAllAdded ==
  stage = "reported" =>
    /\ successful = Len(added) /\ IsInjective(added)
    /\ shown = "none" =>
         \A k \in DOMAIN files :
           \/ Len(files) > 1 /\ files[k].kind = "zip" /\ ~Reads(files[k])
           \/ /\ Reads(files[k])
              /\ \A i \in DOMAIN files[k].entries :
                   LET e == files[k].entries[i] IN
                   \/ e.body # Bad /\ e.name \in Range(added)
                   \/ e.name = BlankName /\ files[k].kind = "zip"
=============================================================================
