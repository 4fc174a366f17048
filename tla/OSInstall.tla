----------------------------- MODULE OSInstall ------------------------------
(***************************************************************************)
(* Unattended installs: the rows of os_install_configs, the defaults that  *)
(* every start adds to them, and the generated file that the admin         *)
(* handlers keep beside each row.  A handler writes its row and then its   *)
(* file; requests interleave between the two and the process may stop.     *)
(*                                                                         *)
(* Parameters are reduced to whether they carry a host name and to a       *)
(* variant; a rendered text is the template with the parameters in it.     *)
(***************************************************************************)
EXTENDS Naturals, Sequences

CONSTANTS
    Defaults,       \* the config_names SeedOSInstallConfigs knows
    OsTypes,        \* the os_type values that requests send
    Variants,       \* parameter sets that differ, one of them without a host name
    NoHost,         \* that one
    Names,          \* names that requests send
    Admins,         \* admin requests under way at a time
    MaxRow,         \* bound: rows inserted
    MaxStart,       \* bound: starts of the process
    None

\* what the constants are
Constants ==
    /\ Variants \ {NoHost} # {}
    /\ None \notin Defaults \cup Names \cup Variants \cup OsTypes
    /\ {MaxRow, MaxStart} \subseteq Nat

VARIABLES
    up,         \* "down", "seeding" (before HTTP is served) or "up"
    starts,     \* starts so far
    rows,       \* os_install_configs by id (AUTOINCREMENT, rows are never removed)
    listed,     \* SeedOSInstallConfigs: the config_names it found
    toSeed,     \* SeedOSInstallConfigs: the defaults still to look at
    files,      \* generated files by id and file name, or None
    req,        \* an admin request that has written its row and not its file
    renamed,    \* history: defaults whose row got another config_name
    behind      \* history: rows whose file a failed save, a crash or a race left behind

vars == <<up, starts, rows, listed, toSeed, files, req, renamed, behind>>

Ids   == 1..MaxRow
Stems == {"preseed.cfg", "autoinstall.yaml", "kickstart.ks", "config"}
Idle  == [id |-> 0, os |-> None, params |-> None]

\* the row a request or a seed writes; seed is history: the default it came from
ConfigRow(name, conf, os, params, on, seed) ==
    [name |-> name, config_name |-> conf, os_type |-> os, params |-> params, enabled |-> on, seed |-> seed]

\* strings.ToLower on the one mixed-case spelling of the model
Lower(os) == IF os = "Rocky" THEN "rocky" ELSE os

\* Generate: the template an os_type selects
Template(os) ==
    CASE Lower(os) = "debian" -> "preseed"
      [] Lower(os) = "ubuntu" -> "autoinstall"
      [] Lower(os) \in {"centos", "rhel", "rocky", "rockylinux", "alma", "almalinux", "fedora"} -> "kickstart"
      [] Lower(os) \in {"opensuse", "opensuse-leap"} -> "autoyast"
      [] OTHER -> None

\* Generate: the kickstart flavour an os_type selects
Flavour(os) ==
    CASE Lower(os) \in {"rocky", "rockylinux"} -> "rocky"
      [] Lower(os) \in {"alma", "almalinux"}   -> "alma"
      [] Lower(os) = "fedora"                  -> "fedora"
      [] OTHER                                 -> "centos"

\* validateParams: a host name is required
ValidateParams(params) == params # NoHost

\* GeneratePreseed
GeneratePreseed(params) == IF ValidateParams(params) THEN <<"preseed", params>> ELSE None

\* GenerateAutoinstall
GenerateAutoinstall(params) == IF ValidateParams(params) THEN <<"autoinstall", params>> ELSE None

\* GenerateAutoYAST
GenerateAutoYAST(params) == IF ValidateParams(params) THEN <<"autoyast", params>> ELSE None

\* GenerateKickstart: the mirror of three flavours, or the one of CentOS
GenerateKickstart(params, os) ==
    IF ValidateParams(params)
    THEN <<"kickstart", IF os \in {"rocky", "alma", "fedora"} THEN os ELSE "centos", params>> ELSE None

\* Generate: an unknown os_type is a ValidationError
Generate(os, params) ==
    CASE Template(os) = "preseed"     -> GeneratePreseed(params)
      [] Template(os) = "autoinstall" -> GenerateAutoinstall(params)
      [] Template(os) = "kickstart"   -> GenerateKickstart(params, Flavour(os))
      [] Template(os) = "autoyast"    -> GenerateAutoYAST(params)
      [] OTHER                        -> None

\* configFilename
ConfigFilename(os) ==
    CASE Lower(os) = "debian"             -> "preseed.cfg"
      [] Lower(os) = "ubuntu"             -> "autoinstall.yaml"
      [] Lower(os) \in {"centos", "rhel"} -> "kickstart.ks"
      [] OTHER                            -> "config"

Init ==
    /\ up = "down" /\ starts = 0
    /\ rows = <<>>
    /\ listed = {} /\ toSeed = {}
    /\ files = [i \in Ids |-> [s \in Stems |-> None]]
    /\ req = [a \in Admins |-> Idle]
    /\ renamed = {} /\ behind = {}

-----------------------------------------------------------------------------
\* Faulty variant: only the enabled rows count as existing.
ListedNames_Enabled == {rows[i].config_name : i \in {j \in DOMAIN rows : rows[j].enabled}}

\* List: the config_names of all rows, the disabled ones included
ListedNames == {rows[i].config_name : i \in DOMAIN rows}

\* the start of the process: SeedOSInstallConfigs lists the rows
StartSeeding ==
    /\ up = "down" /\ starts < MaxStart
    /\ up' = "seeding" /\ starts' = starts + 1
    /\ listed' = ListedNames /\ toSeed' = Defaults
    /\ UNCHANGED <<rows, files, req, renamed, behind>>

\* SeedOSInstallConfigs: one default, skipped when its config_name was listed;
\* an insert that fails is logged
SeedDefault(d) ==
    /\ up = "seeding" /\ d \in toSeed
    /\ toSeed' = toSeed \ {d}
    /\ IF d \in listed
         THEN UNCHANGED rows
         ELSE \/ UNCHANGED rows
              \/ /\ Len(rows) < MaxRow
                 /\ rows' = Append(rows, ConfigRow(d, d, "ubuntu", CHOOSE v \in Variants \ {NoHost} : TRUE, TRUE, d))
    /\ UNCHANGED <<up, starts, listed, files, req, renamed, behind>>

\* HTTP is served once the defaults are in
Serve ==
    /\ up = "seeding" /\ toSeed = {}
    /\ up' = "up"
    /\ UNCHANGED <<starts, rows, listed, toSeed, files, req, renamed, behind>>

\* a request on a row is under way
Busy(id) == \E a \in Admins : req[a].id = id

\* repo.Create: the new row is enabled
CreateRow(name, conf, os, params) == Append(rows, ConfigRow(name, conf, os, params, TRUE, None))

\* CreateConfig: name and os_type are required, the parameters are not looked
\* at, a missing config_name is the name; the file comes in a step of its own
CreateConfig(a, name, conf, os, params) ==
    /\ up = "up" /\ req[a] = Idle /\ Len(rows) < MaxRow
    /\ rows' = CreateRow(name, IF conf = None THEN name ELSE conf, os, params)
    /\ req' = [req EXCEPT ![a] = [id |-> Len(rows) + 1, os |-> os, params |-> params]]
    /\ UNCHANGED <<up, starts, listed, toSeed, files, renamed, behind>>

\* repo.Update: every column but enabled; an id that does not exist is no error
UpdateRow(id, name, conf, os, params) ==
    IF id \in DOMAIN rows
    THEN [rows EXCEPT ![id] = ConfigRow(name, conf, os, params, @.enabled, @.seed)]
    ELSE rows

\* UpdateConfig: nothing is required here
UpdateConfig(a, id, name, conf, os, params) ==
    LET column == IF conf = None THEN name ELSE conf
    IN  /\ up = "up" /\ req[a] = Idle
        /\ rows' = UpdateRow(id, name, column, os, params)
        /\ req' = [req EXCEPT ![a] = [id |-> id, os |-> os, params |-> params]]
        /\ renamed' = IF id \in DOMAIN rows /\ column # rows[id].seed
                      THEN renamed \cup {rows[id].seed} ELSE renamed
        /\ behind' = IF Busy(id) THEN behind \cup {id} ELSE behind
        /\ UNCHANGED <<up, starts, listed, toSeed, files>>

\* saveConfigFile: what cannot be generated or written is logged; the file of
\* another os_type stays where it is
SaveConfigFile(a) ==
    /\ up = "up" /\ req[a] # Idle
    /\ req' = [req EXCEPT ![a] = Idle]
    /\ LET id      == req[a].id
           content == Generate(req[a].os, req[a].params)
           clean   == content # None /\ ~\E b \in Admins \ {a} : req[b].id = id
       IN  \/ /\ content # None
              /\ files' = [files EXCEPT ![id][ConfigFilename(req[a].os)] = content]
              /\ behind' = IF clean THEN behind ELSE behind \cup {id}
           \/ UNCHANGED files /\ behind' = behind \cup {id}
    /\ UNCHANGED <<up, starts, rows, listed, toSeed, renamed>>

\* repo.Delete: the row stays, disabled
DeleteRow(id) == [rows EXCEPT ![id].enabled = FALSE]

\* DeleteConfig
DeleteConfig(id) ==
    /\ up = "up" /\ id \in DOMAIN rows
    /\ rows' = DeleteRow(id)
    /\ UNCHANGED <<up, starts, listed, toSeed, files, req, renamed, behind>>

\* the process stops anywhere
Exit ==
    /\ up # "down"
    /\ up' = "down"
    /\ listed' = {} /\ toSeed' = {}
    /\ req' = [a \in Admins |-> Idle]
    /\ behind' = behind \cup ({req[a].id : a \in Admins} \ {0})
    /\ UNCHANGED <<starts, rows, files, renamed>>

Configs == Defaults \cup {None}

Next ==
    \/ StartSeeding \/ Serve \/ Exit
    \/ \E d \in Defaults : SeedDefault(d)
    \/ \E a \in Admins, name \in Names, conf \in Configs, os \in OsTypes, params \in Variants :
          \/ CreateConfig(a, name, conf, os, params)
          \/ \E id \in Ids \cap 1..Len(rows) + 1 : UpdateConfig(a, id, name, conf, os, params)
    \/ \E a \in Admins : SaveConfigFile(a)
    \/ \E id \in Ids : DeleteConfig(id)

Spec == Init /\ [][Next]_vars

-----------------------------------------------------------------------------
\* GetByName: the first row of that name, or 0
GetByName(name) ==
    LET ids == {i \in DOMAIN rows : rows[i].name = name}
    IN  IF ids = {} THEN 0 ELSE CHOOSE i \in ids : \A j \in ids : i <= j

\* ServePXEConfig: two aliases are normalised, as they are spelled
Normalised(os) == CASE os = "rockylinux" -> "rocky" [] os = "almalinux" -> "alma" [] OTHER -> os

\* ServePXEConfig: what a format and a name get, None for 404; the text is
\* rendered from the row, in the format asked for, whatever its os_type
ServePXEConfig(format, name) ==
    LET id == GetByName(name)
    IN  IF id = 0 THEN None
        ELSE IF ~rows[id].enabled THEN None
        ELSE CASE format = "preseed"     -> GeneratePreseed(rows[id].params)
               [] format = "kickstart"   -> GenerateKickstart(rows[id].params, Normalised(rows[id].os_type))
               [] format = "autoinstall" -> GenerateAutoinstall(rows[id].params)
               [] OTHER                  -> None

\* Types.
TypeOK ==
    /\ up \in {"down", "seeding", "up"}
    /\ starts \in 0..MaxStart
    /\ Len(rows) <= MaxRow
    /\ \A i \in DOMAIN rows :
          rows[i] \in [name : Names \cup Defaults, config_name : Names \cup Defaults, os_type : OsTypes \cup {"ubuntu"},
                       params : Variants, enabled : BOOLEAN, seed : Defaults \cup {None}]
    /\ toSeed \subseteq Defaults
    /\ behind \subseteq Ids

\* However often the process starts or dies while seeding, a default is added
\* once: one that the admin has deleted does not come back, unless an update
\* took its config_name away (SeedOSInstallConfigs "checks by config_name to
\* avoid re-creating configs the user has deliberately deleted").
SeededOnce ==
    \A d \in Defaults \ renamed : \A i, j \in DOMAIN rows :
        rows[i].seed = d /\ rows[j].seed = d => i = j

\* The two ways a machine gets its answers agree: what PXE renders from a
\* row in the format of its os_type is what the row's generated file holds,
\* unless a save failed, was cut off or overlapped another, or the os_type is
\* spelled with capitals (Generate folds case, ServePXEConfig does not).
FileAgrees ==
    \A name \in Names : \A f \in {"preseed", "kickstart", "autoinstall"} :
        LET id  == GetByName(name)
            row == rows[id]
        IN  (IF id = 0 THEN FALSE
             ELSE /\ row.seed = None /\ row.enabled
                  /\ id \notin behind /\ ~Busy(id)
                  /\ Template(row.os_type) = f /\ Lower(row.os_type) = row.os_type)
            => files[id][ConfigFilename(row.os_type)] = ServePXEConfig(f, name)
=============================================================================
