----------------------------- MODULE MCStartup ------------------------------
(***************************************************************************)
(* Two instances that race on one database, and one instance with many     *)
(* combinations of settings in its file and its environment beside one     *)
(* that uses the database.  The list of migrations has two entries, so     *)
(* that an instance can fail between them; migrations.go has one today.    *)
(***************************************************************************)
EXTENDS Startup

MCInstances == {"A", "B"}

Setting(level, db, uri, blob, place) ==
    [k \in Keys |-> CASE k = "logLevel" -> level
                      [] k = "databaseType" -> db
                      [] k = "databaseURI" -> uri
                      [] k = "blobType" -> blob
                      [] k = "blobPlace" -> place]

OnDatabase == [file |-> "read", says |-> Setting("", "postgres", "", "disk", "dir"),
               env |-> Setting("", "", "uri", "", "")]

Racing == [i \in MCInstances |-> OnDatabase]

Files == {Setting(level, db, uri, "disk", place) :
            level \in {"", "loud"}, db \in {"", "postgres"}, uri \in {"", "file"},
            place \in {"", "file"}}

Environments == {Setting(level, db, uri, blob, "") :
            level \in {"", "debug"}, db \in {"", "memory", "sqlite"}, uri \in {"", "env"},
            blob \in {"", "memory"}}

Told ==
    {[file |-> "read", says |-> f, env |-> e] : f \in Files, e \in Environments}
      \cup {[file |-> file, says |-> NotLoaded, env |-> e] :
               file \in {"absent", "broken"}, e \in Environments}

AllDeployments == {Racing} \cup {[Racing EXCEPT !["A"] = s] : s \in Told}
=============================================================================
