----------------------------- MODULE IpCountry -----------------------------
(***************************************************************************)
(* The country of an IP address: IpCountryService over the database that   *)
(* GeoIpDatabaseManager downloads, replaces and keeps open, in one process *)
(* of a service, whose requests give way to each other only while they     *)
(* wait for the download.  The manager and the cache live as long as the   *)
(* process.  A database is told apart by the order in which the provider   *)
(* published it; the path of a request to its address is left out.         *)
(***************************************************************************)
EXTENDS Integers, Sequences

CONSTANTS
    Visit,     \* requests in flight at once
    Ip,        \* valid addresses
    Country,   \* ISO2 codes
    Lists      \* what each published database lists: a country, or Unlisted

Unlisted == "unlisted"
Edition  == DOMAIN Lists

ASSUME ListsAssumption ==
    Lists \in Seq([Ip -> Country \cup {Unlisted}]) /\ Lists # <<>>

VARIABLES
    published,   \* the newest database at the provider
    file,        \* the installed database, or NoFile
    expired,     \* whether its file is older than ttl_days
    broken,      \* whether maxminddb cannot open it
    library,     \* whether maxminddb is installed: no requirements file names it
    reader,      \* the database that _reader has open, or NoFile
    cache,       \* _ip_cache
    visit,       \* what each request waits for, and the newest database then
    failed,      \* addresses whose lookup met an exception in this process
    installed,   \* databases ever installed
    halfway      \* whether a replacement stopped before its reader was reset

ipVars == <<published, file, expired, broken, library, reader, cache, visit, failed,
            installed, halfway>>

NoFile  == 0
Unknown == "unknown"    \* a cached None
Absent  == "absent"     \* no entry in the cache
Resting == [on |-> "nothing"]

ASSUME CountryAssumption == Country \cap {Unlisted, Unknown, Absent} = {}

-----------------------------------------------------------------------------
Answer(db, ip) == IF Lists[db][ip] = Unlisted THEN Unknown ELSE Lists[db][ip]

\* resolve_iso2_by_ip, from get_reader on: nothing waits any more.  opened is
\* the database already open, db the one on disk.
Read(v, ip, opened, db, opens) ==
    LET from == IF opened # NoFile THEN opened ELSE db IN
    /\ visit' = [visit EXCEPT ![v] = Resting]
    /\ IF opened # NoFile \/ opens
       THEN /\ reader' = from
            /\ cache' = [cache EXCEPT ![ip] = Answer(from, ip)]
            /\ UNCHANGED failed
       ELSE /\ reader' = NoFile
            /\ cache' = [cache EXCEPT ![ip] = Unknown]
            /\ failed' = failed \cup {ip}

Current == file # NoFile /\ ~expired

LookupMutant(v, ip) ==
    /\ visit[v] = Resting
    /\ cache[ip] = Absent /\ ~Current
    /\ visit' = [visit EXCEPT ![v] = [on |-> "lookup", ip |-> ip, since |-> published]]
    /\ cache' = [cache EXCEPT ![ip] = Unknown]
    /\ UNCHANGED <<published, file, expired, broken, library, reader, failed, installed,
                   halfway>>

\* A cached address is answered at once and changes nothing.
Lookup(v, ip) ==
    /\ visit[v] = Resting
    /\ cache[ip] = Absent
    /\ \/ /\ Current
          /\ Read(v, ip, reader, file, library /\ ~broken)
       \/ /\ ~Current
          /\ visit' = [visit EXCEPT ![v] = [on |-> "lookup", ip |-> ip, since |-> published]]
          /\ UNCHANGED <<reader, cache, failed>>
    /\ UNCHANGED <<published, file, expired, broken, library, installed, halfway>>

ForceUpdate(v) ==
    /\ visit[v] = Resting
    /\ visit' = [visit EXCEPT ![v] = [on |-> "update", since |-> published]]
    /\ UNCHANGED <<published, file, expired, broken, library, reader, cache, failed, installed,
                   halfway>>

GivesUpMutant(v) ==
    /\ visit' = [visit EXCEPT ![v] = Resting]
    /\ cache' = [ip \in Ip |-> Unknown]
    /\ failed' = Ip
    /\ UNCHANGED reader

\* What the exception does to the request that waits.
GivesUp(v) ==
    /\ visit' = [visit EXCEPT ![v] = Resting]
    /\ IF visit[v].on = "lookup"
       THEN /\ cache' = [cache EXCEPT ![visit[v].ip] = Unknown]
            /\ failed' = failed \cup {visit[v].ip}
       ELSE UNCHANGED <<cache, failed>>
    /\ UNCHANGED reader

\* No page, no link in it, no file, a file too short, an archive that does not
\* unpack: the installed database stays.
DownloadFails(v) ==
    /\ visit[v] # Resting
    /\ GivesUp(v)
    /\ UNCHANGED <<published, file, expired, broken, library, installed, halfway>>

\* A slow download may end after a newer database was published, and even
\* installed.  It need not be a database that maxminddb can open.
Install(v, db) ==
    /\ db \in visit[v].since .. published
    /\ file' = db
    /\ expired' = FALSE
    /\ broken' \in BOOLEAN
    /\ installed' = installed \cup {db}
    /\ UNCHANGED <<published, library>>

\* The download replaces the file and the reader is reset.
Downloaded(v, db) ==
    /\ visit[v] # Resting
    /\ Install(v, db)
    /\ halfway' = FALSE
    /\ IF visit[v].on = "lookup"
       THEN Read(v, visit[v].ip, NoFile, db, library /\ ~broken')
       ELSE /\ visit' = [visit EXCEPT ![v] = Resting]
            /\ reader' = NoFile
            /\ UNCHANGED <<cache, failed>>

\* _atomic_replace unlinks the file before it renames the new one, and the
\* metadata are written after it: an exception at either place leaves the
\* reader open on the database that was.
StopsHalfway(v) ==
    /\ visit[v] # Resting
    /\ \/ \E db \in Edition : Install(v, db)
       \/ file' = NoFile /\ UNCHANGED <<published, expired, broken, library, installed>>
    /\ halfway' = TRUE
    /\ GivesUp(v)

Expire ==
    /\ file # NoFile /\ ~expired
    /\ expired' = TRUE
    /\ UNCHANGED <<published, file, broken, library, reader, cache, visit, failed,
                   installed, halfway>>

Publish ==
    /\ published + 1 \in Edition
    /\ published' = published + 1
    /\ UNCHANGED <<file, expired, broken, library, reader, cache, visit, failed,
                   installed, halfway>>

\* The process dies, perhaps between unlink and rename, and comes back.
Reboot ==
    /\ file' \in {file} \cup {NoFile : v \in {w \in Visit : visit[w] # Resting}}
    /\ library' \in BOOLEAN
    /\ reader' = NoFile
    /\ cache' = [ip \in Ip |-> Absent]
    /\ visit' = [v \in Visit |-> Resting]
    /\ failed' = {}
    /\ halfway' = FALSE
    /\ UNCHANGED <<published, expired, broken, installed>>

-----------------------------------------------------------------------------
IpInit ==
    /\ published = 1
    /\ file = NoFile /\ expired = FALSE /\ broken = FALSE
    /\ library \in BOOLEAN
    /\ reader = NoFile
    /\ cache = [ip \in Ip |-> Absent]
    /\ visit = [v \in Visit |-> Resting]
    /\ failed = {} /\ installed = {} /\ halfway = FALSE

IpNext ==
    \/ \E v \in Visit :
         \/ \E ip \in Ip : Lookup(v, ip)
         \/ ForceUpdate(v)
         \/ DownloadFails(v) \/ StopsHalfway(v)
         \/ \E db \in Edition : Downloaded(v, db)
    \/ Expire
    \/ Publish
    \/ Reboot

-----------------------------------------------------------------------------
(***************************************************************************)
(* Properties.                                                             *)
(***************************************************************************)
IpTypeOK ==
    /\ published \in Edition
    /\ file \in Edition \cup {NoFile} /\ reader \in Edition \cup {NoFile}
    /\ expired \in BOOLEAN /\ broken \in BOOLEAN /\ library \in BOOLEAN
    /\ cache \in [Ip -> Country \cup {Unknown, Absent}]
    /\ \A v \in Visit : visit[v].on \in {"nothing", "lookup", "update"}
    /\ failed \subseteq Ip /\ installed \subseteq Edition

(***************************************************************************)
(* The reader that the requests share reads the installed file, whoever    *)
(* replaced it, unless the replacement stopped halfway.                    *)
(***************************************************************************)
ReaderIsInstalled == ~halfway /\ reader # NoFile => reader = file

(***************************************************************************)
(* What the cache holds for an address is what an installed database said  *)
(* of it, or the lasting trace of an exception.                            *)
(***************************************************************************)
CachedAnswerHasASource ==
    \A ip \in Ip :
        \/ cache[ip] = Absent
        \/ \E db \in installed : cache[ip] = Answer(db, ip)
        \/ cache[ip] = Unknown /\ ip \in failed

(***************************************************************************)
(* A country in the cache gives way to None only to a lookup of the same   *)
(* address that was waiting all the time: failures of others, updates and  *)
(* new databases do not touch it.                                          *)
(***************************************************************************)
KnownStaysKnown ==
    [][\A ip \in Ip :
         cache[ip] \in Country /\ cache'[ip] = Unknown =>
            \E v \in Visit : visit[v].on = "lookup" /\ visit[v].ip = ip]_ipVars
=============================================================================
