-------------------------------- MODULE Launch --------------------------------
(***************************************************************************)
(* What a launch of the program does to its data directory before and      *)
(* while it serves: app.Run (src/internal/app/app.go) takes the encryption *)
(* key (src/internal/secret/codec.go), loads the configuration, writes the *)
(* administration token of the environment, and only then listens.         *)
(*                                                                         *)
(* Nothing keeps two launches of one directory apart until net.Listen      *)
(* finds the port taken, the "second launch of a single-instance app" of   *)
(* app.go:135; by then the second one has read or created the key, loaded  *)
(* the database and perhaps written to it.  Every launch may crash at      *)
(* every step, which also stands for an I/O error that makes Run return.   *)
(*                                                                         *)
(* A launch is used once; a restart is the next launch.  The fresh key of  *)
(* a launch is named by the launch.  OMNI_MASTER_KEY has one value, set or *)
(* not set launch by launch.  The database is reduced to the secrets it    *)
(* holds and the key they are sealed under: replaceConfig rewrites every   *)
(* row in one transaction (ConfigStore), so one key seals them all.        *)
(*                                                                         *)
(* An older version may have left its configuration in config.json, plain  *)
(* or sealed, and its own secret.key.  The first launches import the       *)
(* former (Store.Load, migrateJSON) and go on using the latter.            *)
(***************************************************************************)
EXTENDS Naturals

CONSTANTS Launch,       \* the launches of the program on one data directory
          Secret,       \* what the configuration holds encrypted
          AdminToken,   \* the member of Secret that initializeAdminToken writes
          ProxyToken,   \* the one of older versions that Load moves
          AccessKey,    \* to where
          Legacy,       \* what config.json may hold, and the key that seals it
          Former,       \* the generated key of an older version
          Passphrase,   \* the key derived from OMNI_MASTER_KEY
          NoKey,        \* of a database without a secret: "" is stored as ""
          Missing,      \* no such file in the directory
          Torn          \* secret.key truncated and not yet written

ASSUME LaunchAssumption ==
    /\ {AdminToken, AccessKey} \subseteq Secret \ {ProxyToken}
    /\ Legacy \subseteq [key: {NoKey, Passphrase, Former}, secrets: SUBSET Secret]
    /\ Missing \notin Legacy
    /\ Passphrase \notin {NoKey, Former}
    /\ NoKey # Former
    /\ Missing # Torn
    /\ {Missing, Torn} \cap {Former, Passphrase} = {}
    /\ {Former, Passphrase, NoKey, Missing, Torn} \cap Launch = {}

VARIABLES file,     \* secret.key: Missing, Torn, or the generated key in it
          legacy,   \* config.json: Missing, or one of Legacy
          db,       \* whether it holds a configuration, which secrets, the key
          proc,     \* each launch: where it is, its environment, key and memory
          raced,    \* history: two launches found the key missing at once
          crossed   \* history: one wrote while another held another key

launchVars == <<file, legacy, db, proc, raced, crossed>>

Generated == Launch \cup {Former}

Keys == Generated \cup {Passphrase}

\* A launch that holds a configuration, read from the database or to be
\* imported, and may write it.
Holding == {"importing", "upgrading", "loaded", "opening", "serving", "stopping"}

\* What an older version sealed, it sealed under a key that is still there.
LaunchInit ==
    /\ file \in {Missing, Former}
    /\ legacy \in Legacy \cup {Missing}
    /\ legacy # Missing /\ legacy.key = Former => file = Former
    /\ db = [configured |-> FALSE, key |-> NoKey, secrets |-> {}]
    /\ proc \in [Launch -> [at: {"waiting"}, passphrase: BOOLEAN,
                            key: {NoKey}, met: {NoKey}, secrets: {{}}]]
    /\ raced = FALSE
    /\ crossed = FALSE

Goes(l, place) == proc' = [proc EXCEPT ![l].at = place]

\* The process is gone, and its memory with it.
Ends(l) == proc' = [proc EXCEPT ![l].at = "ended", ![l].key = NoKey, ![l].secrets = {}]

HasKey(l, key) == proc' = [proc EXCEPT ![l].at = "keyed", ![l].key = key]

Start(l) ==
    /\ proc[l].at = "waiting"
    /\ Goes(l, "reading")
    /\ UNCHANGED <<file, legacy, db, raced, crossed>>

\* Mutant: the file is preferred to the passphrase once there is one.
UsePassphraseLast(l) ==
    /\ proc[l].at = "reading"
    /\ proc[l].passphrase
    /\ HasKey(l, IF file \in Generated THEN file ELSE Passphrase)
    /\ UNCHANGED <<file, legacy, db, raced, crossed>>

\* OMNI_MASTER_KEY wins over the file, which is then not even looked at.
UsePassphrase(l) ==
    /\ proc[l].at = "reading"
    /\ proc[l].passphrase
    /\ HasKey(l, Passphrase)
    /\ UNCHANGED <<file, legacy, db, raced, crossed>>

\* A file that does not decode to 32 bytes ends the launch, for good: nothing
\* ever replaces it.
ReadKey(l) ==
    /\ proc[l].at = "reading"
    /\ ~proc[l].passphrase
    /\ \/ file \in Generated /\ HasKey(l, file) /\ UNCHANGED raced
       \/ file = Torn /\ Goes(l, "invalid") /\ UNCHANGED raced
       \/ /\ file = Missing
          /\ Goes(l, "creating")
          /\ raced' = (raced \/ \E m \in Launch \ {l} : proc[m].at = "creating")
    /\ UNCHANGED <<file, legacy, db, crossed>>

\* os.WriteFile opens with O_TRUNC whatever is there by now, then writes.
CreateKey(l) ==
    /\ proc[l].at = "creating"
    /\ file' = Torn
    /\ Goes(l, "filling")
    /\ UNCHANGED <<legacy, db, raced, crossed>>

\* Mutant: the error of os.WriteFile is dropped: the key is used and not stored.
FillKeyUnstored(l) ==
    /\ proc[l].at = "filling"
    /\ file' \in {l, Missing}
    /\ HasKey(l, l)
    /\ UNCHANGED <<legacy, db, raced, crossed>>

FillKey(l) ==
    /\ proc[l].at = "filling"
    /\ file' = l
    /\ HasKey(l, l)
    /\ UNCHANGED <<legacy, db, raced, crossed>>

\* Decrypt: what is stored opens with the key that sealed it, and text without
\* the prefix, like "", with any.
Opens(sealed, key) == sealed \in {NoKey, key}

\* Decrypt refuses, with an error that Load and Run return.
TurnedAway(l, sealed) == proc' = [proc EXCEPT ![l].at = "locked", ![l].met = sealed]

\* loadConfig, of a database that holds a configuration or has none to import.
Load(l) ==
    /\ proc[l].at = "keyed"
    /\ db.configured \/ legacy = Missing
    /\ \/ /\ Opens(db.key, proc[l].key)
          /\ proc' = [proc EXCEPT
               ![l].at = IF ProxyToken \in db.secrets THEN "upgrading" ELSE "loaded",
               ![l].secrets = db.secrets]
       \/ ~Opens(db.key, proc[l].key) /\ TurnedAway(l, db.key)
    /\ UNCHANGED <<file, legacy, db, raced, crossed>>

\* Mutant: config.json is imported as long as it is there.
ReadLegacyAgain(l) ==
    /\ proc[l].at = "keyed"
    /\ legacy # Missing
    /\ Opens(legacy.key, proc[l].key)
    /\ proc' = [proc EXCEPT ![l].at = "importing", ![l].secrets = legacy.secrets]
    /\ UNCHANGED <<file, legacy, db, raced, crossed>>

\* migrateJSON reads and decrypts.  That there is no configuration was asked
\* just before; nobody takes the file away while there is none.
ReadLegacy(l) ==
    /\ proc[l].at = "keyed"
    /\ ~db.configured /\ legacy # Missing
    /\ \/ /\ Opens(legacy.key, proc[l].key)
          /\ proc' = [proc EXCEPT ![l].at = "importing", ![l].secrets = legacy.secrets]
       \/ ~Opens(legacy.key, proc[l].key) /\ TurnedAway(l, legacy.key)
    /\ UNCHANGED <<file, legacy, db, raced, crossed>>

\* replaceConfig: every secret of the launch's configuration, under its key.
Write(l, secrets, place) ==
    /\ db' = [configured |-> TRUE,
              key |-> IF secrets = {} THEN NoKey ELSE proc[l].key,
              secrets |-> secrets]
    /\ proc' = [proc EXCEPT ![l].at = place, ![l].secrets = secrets]
    /\ crossed' = (crossed \/ \E m \in Launch \ {l} :
                                  /\ proc[m].at \in Holding
                                  /\ proc[m].key # proc[l].key)
    /\ UNCHANGED <<file, legacy, raced>>

\* migrateJSON writes what it has read, whatever is in the database by now.
Import(l) ==
    /\ proc[l].at = "importing"
    /\ Write(l, proc[l].secrets, "imported")

\* Then it renames config.json, and Load goes on to read the database; a launch
\* that finds the file gone already fails.
Retire(l) ==
    /\ proc[l].at = "imported"
    /\ IF legacy = Missing THEN Ends(l) ELSE Goes(l, "keyed")
    /\ legacy' = Missing
    /\ UNCHANGED <<file, db, raced, crossed>>

\* Load makes an access key of the proxy token of an older version.
Upgrade(l) ==
    /\ proc[l].at = "upgrading"
    /\ Write(l, (proc[l].secrets \ {ProxyToken}) \cup {AccessKey}, "loaded")

\* initializeAdminToken, before the port is asked for; OMNI_ADMIN_TOKEN may be
\* set or not.
InitToken(l) ==
    /\ proc[l].at = "loaded"
    /\ \/ /\ AdminToken \notin proc[l].secrets
          /\ Write(l, proc[l].secrets \cup {AdminToken}, "opening")
       \/ Goes(l, "opening") /\ UNCHANGED <<file, legacy, db, raced, crossed>>

\* A taken port ends the launch, in desktop mode after opening the page of the
\* instance that has it.
Listen(l) ==
    /\ proc[l].at = "opening"
    /\ IF \E m \in Launch : proc[m].at = "serving" THEN Ends(l) ELSE Goes(l, "serving")
    /\ UNCHANGED <<file, legacy, db, raced, crossed>>

\* A change through the administration API, written from the memory of the
\* process: any secret may be added or taken away but the proxy token, which
\* no handler knows.
Save(l) ==
    /\ proc[l].at \in {"serving", "stopping"}
    /\ \E secrets \in SUBSET (Secret \ {ProxyToken}) : Write(l, secrets, proc[l].at)

\* Shutdown closes the listener first and gives the handlers five seconds.
Stop(l) ==
    /\ proc[l].at = "serving"
    /\ Goes(l, "stopping")
    /\ UNCHANGED <<file, legacy, db, raced, crossed>>

Close(l) ==
    /\ proc[l].at = "stopping"
    /\ Ends(l)
    /\ UNCHANGED <<file, legacy, db, raced, crossed>>

Crash(l) ==
    /\ proc[l].at \in {"reading", "creating", "filling", "keyed", "imported"} \cup Holding
    /\ Ends(l)
    /\ UNCHANGED <<file, legacy, db, raced, crossed>>

LaunchNext ==
    \E l \in Launch :
        \/ Start(l) \/ UsePassphrase(l) \/ ReadKey(l) \/ CreateKey(l) \/ FillKey(l)
        \/ Load(l) \/ ReadLegacy(l) \/ Import(l) \/ Retire(l) \/ Upgrade(l)
        \/ InitToken(l) \/ Listen(l) \/ Save(l)
        \/ Stop(l) \/ Close(l) \/ Crash(l)

LaunchSpec == LaunchInit /\ [][LaunchNext]_launchVars

-----------------------------------------------------------------------------

ProcType ==
    [at: {"waiting", "reading", "creating", "filling", "keyed", "imported",
          "invalid", "locked", "ended"} \cup Holding,
     passphrase: BOOLEAN, key: Keys \cup {NoKey}, met: Keys \cup {NoKey}, secrets: SUBSET Secret]

LaunchTypeOK ==
    /\ file \in Generated \cup {Missing, Torn}
    /\ legacy \in Legacy \cup {Missing}
    /\ db \in [configured: BOOLEAN, key: Keys \cup {NoKey}, secrets: SUBSET Secret]
    /\ proc \in [Launch -> ProcType]
    /\ raced \in BOOLEAN
    /\ crossed \in BOOLEAN

(***************************************************************************)
(* The key file of the directory opens what is sealed under a generated    *)
(* key, whatever crash came between: in particular a truncated file, which *)
(* no launch repairs, never costs a configuration.  resolveKey writes the  *)
(* file before the key is used and never over one it could read.  Two      *)
(* launches that both found it missing are the exception: the second to    *)
(* write takes the first one's key away.                                   *)
(***************************************************************************)
KeyFileOpensDatabase ==
    db.key \in Generated => file = db.key \/ raced

(***************************************************************************)
(* Decrypt reverses Encrypt from one launch to the next (codec.go:91): a   *)
(* launch that "cannot be decrypted with the current key" turns away is    *)
(* one whose OMNI_MASTER_KEY was set when the writer's was not, or the     *)
(* other way round, unless two launches created the key at once.  The      *)
(* writer is a launch or, of config.json, an older version.                *)
(***************************************************************************)
LockedOutByChoice ==
    \A l \in Launch :
        proc[l].at = "locked" => raced \/ proc[l].passphrase # (proc[l].met = Passphrase)

(***************************************************************************)
(* Secrets are replaced only by a launch that could read them: the         *)
(* database goes from one key to another only after some launch wrote      *)
(* while another one, under another key, held the configuration or was     *)
(* importing one.  Launches one after the other never do it, whatever      *)
(* their environment: config.json is not imported again over the database  *)
(* when the launch that imported it crashed before it renamed the file.    *)
(***************************************************************************)
SealedBySameKey ==
    [][db.key # NoKey /\ db'.key \notin {NoKey, db.key} => crossed]_launchVars
=============================================================================
