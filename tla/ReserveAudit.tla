----------------------------- MODULE ReserveAudit -----------------------------
(***************************************************************************)
(* ReserveAudit of src/cryptocurrency/coin_features/stablecoin/            *)
(* reserve_audit.py: every call loads the whole reserve file, and          *)
(* add_reserve_asset and remove_reserve_asset write it back whole.  The    *)
(* class holds no lock and no state but the file's path, so callers        *)
(* (processes, or ReserveAudit objects on one path) interleave at the file *)
(* operations.  save_reserve_data's open(..., "w") empties the file before *)
(* json.dump writes it: the two are separate steps, and a process may die  *)
(* between them.  A file cut short makes json.load raise JSONDecodeError.  *)
(*                                                                         *)
(* The file is a record: complete (json.load accepts it), assets (the      *)
(* "assets" list) and total_liabilities.  done is the sequence of add and  *)
(* remove calls that returned, in the order they returned (a history       *)
(* variable read only by properties); reads holds what perform_audit and   *)
(* list_reserve_assets returned.                                           *)
(***************************************************************************)
EXTENDS Integers, SequencesExt

CONSTANTS
    Procs,          \* callers sharing the reserve file
    Calls,          \* [kind |-> "add" or "remove", name, value] calls they make
    Reads,          \* the reader calls, a subset of {"audit", "list"}
    InitialFile,    \* the reserve file as the calls find it
    MaxCalls        \* bound on the number of calls started

VARIABLES file, pc, local, call, done, started, reads

vars == <<file, pc, local, call, done, started, reads>>

\* The file between open(..., "w") and the end of json.dump.
Emptied == [complete |-> FALSE, assets |-> <<>>, total_liabilities |-> 0]

\* The change a call makes to the loaded reserve_data.
Apply(data, c) ==
    IF c.kind = "add"
    THEN [data EXCEPT !.assets = Append(@, [name |-> c.name, value |-> c.value])]
    ELSE [data EXCEPT !.assets = SelectSeq(@, LAMBDA a : a.name /= c.name)]

\* sum(asset["value"] for asset in reserve_data["assets"]).
TotalReserves(data) == FoldLeft(LAMBDA acc, a : acc + a.value, 0, data.assets)

\* What perform_audit and list_reserve_assets return for the loaded data.
ReadResult(r, data) ==
    [kind |-> r, assets |-> data.assets,
     status |-> IF r = "list" THEN "none"
                ELSE IF TotalReserves(data) >= data.total_liabilities THEN "pass"
                ELSE "fail"]

Init ==
    /\ file = InitialFile
    /\ pc = [p \in Procs |-> "idle"]
    /\ local = [p \in Procs |-> InitialFile]
    /\ call = [p \in Procs |-> CHOOSE c \in Calls : TRUE]
    /\ done = <<>>
    /\ started = 0
    /\ reads = {}

\* Mutant of load_reserve_data: a file cut short read as holding no assets
\* (a JSONDecodeError caught and replaced by the empty file).
LoadReserveDataTruncatedAsEmpty(p, c) ==
    /\ pc[p] = "idle" /\ started < MaxCalls
    /\ started' = started + 1
    /\ call' = [call EXCEPT ![p] = c]
    /\ local' = [local EXCEPT ![p] = Apply(IF file.complete THEN file ELSE Emptied, c)]
    /\ pc' = [pc EXCEPT ![p] = "loaded"]
    /\ UNCHANGED <<file, done, reads>>

\* add_reserve_asset / remove_reserve_asset up to the save: load_reserve_data
\* (JSONDecodeError on a file cut short, the call ends), then the append or
\* the filter on the loaded dict.
LoadReserveData(p, c) ==
    /\ pc[p] = "idle" /\ started < MaxCalls
    /\ started' = started + 1
    /\ call' = [call EXCEPT ![p] = c]
    /\ IF file.complete
       THEN /\ local' = [local EXCEPT ![p] = Apply(file, c)]
            /\ pc' = [pc EXCEPT ![p] = "loaded"]
       ELSE UNCHANGED <<local, pc>>
    /\ UNCHANGED <<file, done, reads>>

\* save_reserve_data, first half: open(self.reserve_file, "w") truncates.
OpenForWrite(p) ==
    /\ pc[p] = "loaded"
    /\ file' = Emptied
    /\ pc' = [pc EXCEPT ![p] = "writing"]
    /\ UNCHANGED <<local, call, done, started, reads>>

\* save_reserve_data, second half: json.dump writes the whole dict, and
\* the call returns.
DumpReserveData(p) ==
    /\ pc[p] = "writing"
    /\ file' = [local[p] EXCEPT !.complete = TRUE]
    /\ pc' = [pc EXCEPT ![p] = "idle"]
    /\ done' = Append(done, call[p])
    /\ UNCHANGED <<local, call, started, reads>>

\* perform_audit and list_reserve_assets: one load_reserve_data (which
\* raises on a file cut short) and the result computed from it; the file
\* is left alone.
ReadReserveData(p, r) ==
    /\ pc[p] = "idle" /\ started < MaxCalls
    /\ started' = started + 1
    /\ reads' = IF file.complete THEN reads \cup {ReadResult(r, file)} ELSE reads
    /\ UNCHANGED <<file, pc, local, call, done>>

\* The process dies during a call; it starts again idle.  The file keeps
\* whatever the call had written.
Crash(p) ==
    /\ pc[p] /= "idle"
    /\ pc' = [pc EXCEPT ![p] = "idle"]
    /\ UNCHANGED <<file, local, call, done, started, reads>>

Next ==
    \/ \E p \in Procs, c \in Calls : LoadReserveData(p, c)
    \/ \E p \in Procs, r \in Reads : ReadReserveData(p, r)
    \/ \E p \in Procs : OpenForWrite(p) \/ DumpReserveData(p) \/ Crash(p)

Spec == Init /\ [][Next]_vars

-----------------------------------------------------------------------------
(* Properties                                                              *)

TypeOK ==
    /\ pc \in [Procs -> {"idle", "loaded", "writing"}]
    /\ call \in [Procs -> Calls]
    /\ done \in Seq(Calls)
    /\ started \in 0 .. MaxCalls
    /\ \A x \in reads : x.kind \in Reads /\ x.status \in {"pass", "fail", "none"}

\* When no call is under way, the reserve file loads and lists the initial
\* assets with every add_reserve_asset and remove_reserve_asset that
\* returned applied in the order they returned.  Two calls that load the
\* same file both write back their own copy, so the later save drops the
\* earlier call's change; a process that dies between open(..., "w") and
\* json.dump leaves a file perform_audit can no longer load.
ReserveFileReflectsCalls ==
    (\A p \in Procs : pc[p] = "idle") =>
        /\ file.complete
        /\ file.assets = FoldLeft(Apply, InitialFile, done).assets

\* The assets of the file with some of the returned add and remove calls
\* applied to the initial file, in the order they returned.
FromReturnedCalls(assets) ==
    \E s \in AllSubSeqs(done) : assets = FoldLeft(Apply, InitialFile, s).assets

\* Whenever the reserve file loads, and in everything perform_audit and
\* list_reserve_assets ever returned, the assets are the initial ones with
\* a subsequence of the returned calls applied in return order: a lost
\* update or a crash may drop calls, but no interleaving of loads and
\* saves invents an asset, brings back a removed one, or reorders two
\* calls.
ReservesFromReturnedCalls ==
    /\ file.complete => FromReturnedCalls(file.assets)
    /\ \A x \in reads : FromReturnedCalls(x.assets)
==============================================================================
