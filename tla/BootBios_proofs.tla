-------------------------- MODULE BootBios_proofs ---------------------------
(***************************************************************************)
(* Proofs about the BIOS build (module BootBios), for every command line,   *)
(* initrd, memory map and machine.                                          *)
(***************************************************************************)
EXTENDS BootBios, Cmdline_proofs, FiniteSetTheorems

----------------------------------------------------------------------------
(* The command line is a part that no other step disturbs *)

LEMMA CmdlinePart == BootNext => process_cmdline \/ UNCHANGED cmdlineVars
<1> SUFFICES ASSUME BootNext PROVE process_cmdline \/ UNCHANGED cmdlineVars
  OBVIOUS
<1>1. CASE main
  BY <1>1 DEF main, ProcessCmdline, InitPaging, EnablePaging, RelocateLow, AddFile, CpioExtract,
              ProcessWim, InitialiseInt13, ReadPe,
              load_pe, load_pe_header, load_pe_section, load_pe_raw, loadUnchanged, load_pe_fails,
              RelocateHigh, Describe,
              EnterBootmgr
<1>2. CASE call_interrupt_wrapper
  BY <1>2, ZenonT(60) DEF call_interrupt_wrapper, WrapperInt13, EmulateInt13, CallReal, ReturnFromReal,
              WrapperReturns
<1>3. CASE UseMemory \/ CountDrives \/ MakeCall \/ BootmgrReturns
  BY <1>3 DEF UseMemory, CountDrives, MakeCall, Call, BootmgrReturns
<1> QED BY <1>1, <1>2, <1>3 DEF BootNext

LEMMA CmdlineOfBoot == BootSpec => CmdlineSpec
<1>1. BootInit => CmdlineInit
  BY DEF BootInit
<1>2. [BootNext]_vars => [process_cmdline]_cmdlineVars
  BY CmdlinePart DEF vars
<1> QED BY <1>1, <1>2, PTL DEF BootSpec, CmdlineSpec

\* As part of a boot, too, the command line is put back as it was.
THEOREM BootRestoresCmdline == BootSpec => []CmdlineRestored
BY CmdlineOfBoot, CmdlineIsRestored

\* And wimboot's switches are what its arguments ask for.
THEOREM BootObeysCmdline == BootSpec => []FlagsAreAsked
BY CmdlineOfBoot, CmdlineIsObeyed

----------------------------------------------------------------------------
(* Calls of the boot manager *)

Booting == {"process_cmdline", "init_paging", "enable_paging", "relocate_low", "extract",
            "wim", "int13", "read_pe", "load_pe", "load_sections", "relocate_high", "describe",
            "disable_paging"}
Calling == {"bootmgr", "wrapper", "emulate_int13", "real", "wrapped"}

\* The fields of struct bootapp_callback_params that matter.
Fields == {"interrupt", "command", "drive", "buffer", "esdi", "cf", "dl", "served", "data"}

CallTypes ==
  /\ pc \in Booting \union Calling \union {"dead"}
  /\ paging \in BOOLEAN /\ cpu \in Cpu /\ saved \in Cpu /\ caller \in Cpu
  /\ cr0 \in [pe : BOOLEAN, pg : BOOLEAN]
  /\ drive_count \in Nat /\ vdisk_drive \in Nat
  /\ DOMAIN params = Fields
  /\ modes \in [Buffers -> BOOLEAN]

\* Before bootmgr.exe is entered it has made no call, and without paging nothing changes
\* the control registers.
QuietInv ==
  pc \in Booting =>
    /\ params = NoCall /\ \A b \in Buffers : ~modes[b]
    /\ ~paging \/ pc \in {"process_cmdline", "init_paging", "enable_paging"} => saved = cpu

\* Where the control registers of the caller are.  With paging, an INT 13 call has them in
\* struct paging_state; in real mode the mode bits are in what call_real pushed.
ModeInv ==
  /\ pc \in {"bootmgr", "wrapper"} => cpu = caller
  /\ pc \in {"emulate_int13", "wrapped"} => IF paging THEN saved = caller ELSE cpu = caller
  /\ pc = "emulate_int13" => IsInt13
  /\ pc = "real" =>
       /\ ~cpu.pe /\ ~cpu.pg
       /\ IF IsInt13 /\ paging THEN saved = caller
          ELSE caller = [cpu EXCEPT !.pe = cr0.pe, !.pg = cr0.pg]

\* The call in progress is one that the boot manager can make, and its registers are
\* those that it was made with.
ParamsInv ==
  /\ params.command = "mode_info" => params.interrupt = 16 /\ params.buffer \in Buffers
  /\ params.command = "get_parameters" => params.interrupt = 19
  /\ pc \in {"wrapper", "emulate_int13", "real"} => params.esdi = params.buffer

TextModeAlways ==
  pc \in Calling /\ ~flags.gui => \A b \in Buffers : ~modes[b]

CallsInv ==
  CallTypes /\ QuietInv /\ ModeInv /\ ParamsInv /\ TextModeAlways /\ DriveIsCounted

callVars == <<paging, cpu, saved, caller, cr0, modes, params>>

\* The steps of main that neither change the control registers nor enter bootmgr.exe.
Preparing ==
  \/ ProcessCmdline \/ RelocateLow \/ AddFile \/ CpioExtract \/ ProcessWim \/ ReadPe \/ load_pe
  \/ load_pe_fails \/ RelocateHigh \/ Describe

LEMMA PreparingQuiet ==
  ASSUME Preparing
  PROVE  /\ UNCHANGED <<callVars, drive_count, vdisk_drive>>
         /\ pc \in Booting /\ pc' \in Booting \union {"dead"}
         /\ pc' \in {"process_cmdline", "init_paging", "enable_paging"} => pc = "process_cmdline"
<1>1. CASE ProcessCmdline
  BY <1>1 DEF ProcessCmdline, callVars, MainUnchanged, Goto, memoryVars, int13Vars, Booting
<1>2. CASE RelocateLow
  BY <1>2 DEF RelocateLow, relocate_memory_low, NextLow, TryLow, givenVars, callVars,
              MainUnchanged, Goto, int13Vars, Booting
<1>3. CASE RelocateHigh
  BY <1>3 DEF RelocateHigh, relocate_memory_high, StartHigh, NextHigh, TryHigh, CopyPage, Copied,
              givenVars, callVars, MainUnchanged, Goto, int13Vars, Booting
<1>4. CASE AddFile
  BY <1>4 DEF AddFile, add_file, add_bootmgr, memoryVars, callVars, int13Vars, Booting
<1>5. CASE CpioExtract \/ ProcessWim \/ ReadPe \/ load_pe \/ load_pe_fails \/ Describe
  BY <1>5 DEF CpioExtract, ProcessWim, ReadPe,
              load_pe, load_pe_header, load_pe_section, load_pe_raw, loadUnchanged, load_pe_fails,
              Describe, callVars,
              MainUnchanged, Goto, memoryVars, int13Vars, Booting
<1> QED BY <1>1, <1>2, <1>3, <1>4, <1>5 DEF Preparing

LEMMA CallsInit == BootInit => CallsInv
<1> SUFFICES ASSUME BootInit PROVE CallsInv
  OBVIOUS
<1>1. CallTypes
  <2>1. /\ pc \in Booting /\ paging \in BOOLEAN /\ cpu \in Cpu /\ saved \in Cpu /\ caller \in Cpu
        /\ cr0 \in [pe : BOOLEAN, pg : BOOLEAN]
    BY DEF BootInit, Booting, Cpu
  <2>2. drive_count \in Nat /\ vdisk_drive \in Nat
    BY Int13Assumption DEF BootInit, Drives, NoDrive
  <2>3. DOMAIN params = Fields
    BY DEF BootInit, NoCall, Fields
  <2>4. modes \in [Buffers -> BOOLEAN]
    BY DEF BootInit
  <2> QED BY <2>1, <2>2, <2>3, <2>4 DEF CallTypes
<1>2. QuietInv /\ ModeInv /\ TextModeAlways
  BY DEF BootInit, QuietInv, ModeInv, TextModeAlways, Calling
<1>3. ParamsInv /\ DriveIsCounted
  BY DEF BootInit, ParamsInv, DriveIsCounted, NoCall
<1> QED BY <1>1, <1>2, <1>3 DEF CallsInv

\* The caller's mode bits, pushed and popped, are the caller's mode bits.
LEMMA PushPop ==
  ASSUME NEW c \in Cpu
  PROVE  LET real == [c EXCEPT !.pe = FALSE, !.pg = FALSE]
         IN  /\ real \in Cpu /\ ~real.pe /\ ~real.pg
             /\ c = [real EXCEPT !.pe = c.pe, !.pg = c.pg]
BY DEF Cpu

\* The steps that leave the calls alone.
LEMMA CallsFrame ==
  ASSUME CallsInv, UNCHANGED callVars, UNCHANGED <<vdisk_drive, flags>>, drive_count' \in Nat,
         \/ pc' = pc
         \/ /\ pc \in Booting /\ pc' \in Booting
            /\ ~(pc' \in {"process_cmdline", "init_paging", "enable_paging"})
         \/ pc' = "dead"
  PROVE  CallsInv'
<1>1. UNCHANGED <<paging, cpu, saved, caller, cr0, modes, params>>
  BY DEF callVars
<1>2. pc' \in Booting \union Calling \union {"dead"}
  BY DEF CallsInv, CallTypes
<1>3. CallTypes'
  BY <1>1, <1>2 DEF CallsInv, CallTypes
<1>4. QuietInv'
  BY <1>1 DEF CallsInv, QuietInv, Booting
<1>5. ModeInv'
  BY <1>1 DEF CallsInv, ModeInv, Booting, IsInt13
<1>6. ParamsInv' /\ TextModeAlways' /\ DriveIsCounted'
  BY <1>1 DEF CallsInv, ParamsInv, TextModeAlways, DriveIsCounted, Booting, Calling
<1> QED BY <1>3, <1>4, <1>5, <1>6 DEF CallsInv

\* The steps before bootmgr.exe is entered.
LEMMA BootingStep ==
  ASSUME CallsInv, Preparing \/ InitPaging \/ EnablePaging \/ InitialiseInt13
  PROVE  CallsInv'
<1>1. CASE Preparing
  <2>1. /\ UNCHANGED callVars /\ UNCHANGED <<drive_count, vdisk_drive>>
        /\ pc \in Booting /\ pc' \in Booting \union {"dead"}
        /\ pc' \in {"process_cmdline", "init_paging", "enable_paging"} => pc = "process_cmdline"
    BY <1>1, PreparingQuiet
  <2>2. UNCHANGED <<paging, cpu, saved, caller, cr0, modes, params>>
    BY <2>1 DEF callVars
  <2>3. CallTypes'
    BY <2>1, <2>2 DEF CallsInv, CallTypes
  <2>4. QuietInv'
    BY <2>1, <2>2 DEF CallsInv, QuietInv, Booting
  <2>5. ModeInv' /\ TextModeAlways'
    BY <2>1 DEF ModeInv, TextModeAlways, Booting, Calling
  <2>6. params.command = "other"
    BY <2>1 DEF CallsInv, QuietInv, NoCall
  <2>7. ParamsInv' /\ DriveIsCounted'
    BY <2>1, <2>2, <2>6 DEF ParamsInv, DriveIsCounted, Booting
  <2> QED BY <2>3, <2>4, <2>5, <2>7 DEF CallsInv
<1>2. CASE InitPaging
  <2>1. /\ pc = "init_paging" /\ pc' = "enable_paging" /\ paging' \in BOOLEAN
        /\ UNCHANGED <<cpu, saved, caller, cr0, modes, params, drive_count, vdisk_drive>>
    BY <1>2 DEF InitPaging, init_paging, MainUnchanged, Goto, int13Vars
  <2>2. CallTypes'
    BY <2>1 DEF CallsInv, CallTypes, Booting
  <2>3. QuietInv'
    BY <2>1 DEF CallsInv, QuietInv, Booting
  <2>4. ModeInv' /\ TextModeAlways' /\ ParamsInv' /\ DriveIsCounted'
    BY <2>1 DEF CallsInv, ModeInv, TextModeAlways, Calling, ParamsInv, DriveIsCounted
  <2> QED BY <2>2, <2>3, <2>4 DEF CallsInv
<1>3. CASE EnablePaging
  <2>1. /\ pc = "enable_paging" /\ pc' = "relocate_low" /\ paging' = paging
        /\ saved' = IF paging THEN cpu ELSE saved
        /\ cpu' = IF paging THEN [cpu EXCEPT !.pae = TRUE, !.cr3 = "pdpt", !.pg = TRUE] ELSE cpu
        /\ UNCHANGED <<caller, cr0, modes, params, drive_count, vdisk_drive>>
    BY <1>3 DEF EnablePaging, enable_paging, pagingVars, MainUnchanged, Goto, int13Vars
  <2>2. cpu' \in Cpu /\ saved' \in Cpu
    BY <2>1 DEF CallsInv, CallTypes, Cpu
  <2>3. CallTypes'
    BY <2>1, <2>2 DEF CallsInv, CallTypes, Booting
  <2>4. QuietInv'
    BY <2>1 DEF CallsInv, QuietInv, Booting
  <2>5. ModeInv' /\ TextModeAlways' /\ ParamsInv' /\ DriveIsCounted'
    BY <2>1 DEF CallsInv, ModeInv, TextModeAlways, Calling, ParamsInv, DriveIsCounted
  <2> QED BY <2>3, <2>4, <2>5 DEF CallsInv
<1>4. CASE InitialiseInt13
  <2>1. /\ pc = "int13" /\ pc' \in {"dead", "read_pe"}
        /\ vdisk_drive' = drive_count /\ drive_count' = drive_count + 1
        /\ UNCHANGED <<paging, cpu, saved, caller, cr0, modes, params>>
    BY <1>4 DEF InitialiseInt13, initialise_int13, memoryVars, MainUnchanged, Goto
  <2>2. CallTypes'
    BY <2>1 DEF CallsInv, CallTypes, Booting
  <2>3. QuietInv'
    BY <2>1 DEF CallsInv, QuietInv, Booting
  <2>4. params.command = "other"
    BY <2>1 DEF CallsInv, QuietInv, NoCall, Booting
  <2>5. ModeInv' /\ TextModeAlways' /\ ParamsInv' /\ DriveIsCounted'
    BY <2>1, <2>4 DEF ModeInv, TextModeAlways, Calling, ParamsInv, DriveIsCounted
  <2> QED BY <2>2, <2>3, <2>5 DEF CallsInv
<1> QED BY <1>1, <1>2, <1>3, <1>4

\* Entering bootmgr.exe, and what it and the BIOS do.
LEMMA BootmgrStep ==
  ASSUME CallsInv, EnterBootmgr \/ UseMemory \/ CountDrives \/ MakeCall \/ BootmgrReturns
  PROVE  CallsInv'
<1>1. CASE EnterBootmgr
  <2>1. /\ pc = "disable_paging" /\ pc' = "bootmgr" /\ caller' = saved
        /\ cpu' = (IF paging THEN saved ELSE cpu)
        /\ UNCHANGED <<paging, saved, cr0, modes, params, drive_count, vdisk_drive, flags>>
    BY <1>1 DEF EnterBootmgr, disable_paging, pagingVars, Goto, int13Vars, cmdlineVars
  <2>2. /\ params = NoCall /\ (~paging => saved = cpu)
        /\ \A b \in Buffers : ~modes[b]
    BY <2>1 DEF CallsInv, QuietInv, Booting
  <2>3. cpu' = saved
    BY <2>1, <2>2
  <2>4. CallTypes'
    BY <2>1, <2>3 DEF CallsInv, CallTypes, Calling
  <2>5. QuietInv' /\ ModeInv' /\ TextModeAlways'
    BY <2>1, <2>2, <2>3 DEF QuietInv, ModeInv, TextModeAlways, Booting
  <2>6. ParamsInv' /\ DriveIsCounted'
    BY <2>1 DEF CallsInv, ParamsInv, DriveIsCounted
  <2> QED BY <2>4, <2>5, <2>6 DEF CallsInv
<1>2. CASE UseMemory \/ BootmgrReturns
  <2>1. /\ UNCHANGED callVars /\ UNCHANGED <<drive_count, vdisk_drive, flags>>
        /\ pc' = pc \/ pc' = "dead"
    BY <1>2 DEF UseMemory, BootmgrReturns, callVars, MainUnchanged, Goto, memoryVars, int13Vars,
                cmdlineVars
  <2>2. drive_count' \in Nat
    BY <2>1 DEF CallsInv, CallTypes
  <2> QED BY <2>1, <2>2, CallsFrame
<1>3. CASE CountDrives
  <2>1. /\ UNCHANGED callVars /\ UNCHANGED <<vdisk_drive, flags, pc>> /\ drive_count' \in Drives
    BY <1>3 DEF CountDrives, callVars, mainVars, memoryVars, cmdlineVars
  <2>2. drive_count' \in Nat
    BY <2>1, Int13Assumption DEF Drives
  <2> QED BY <2>1, <2>2, CallsFrame
<1>4. CASE MakeCall
  <2>1. PICK interrupt, command, drive, buffer :
          /\ Call(interrupt, command, drive, buffer)
          /\ command = "mode_info" => interrupt = 16 /\ buffer \in Buffers
          /\ command = "get_parameters" => interrupt = 19
    BY <1>4 DEF MakeCall, Commands
  <2>2. /\ pc = "bootmgr" /\ pc' = "wrapper"
        /\ params' = [NoCall EXCEPT !.interrupt = interrupt, !.command = command,
                                    !.drive = drive, !.dl = drive, !.buffer = buffer,
                                    !.esdi = buffer, !.served = "pending"]
        /\ caller' \in CallerModes /\ cpu' = caller'
        /\ UNCHANGED <<paging, saved, cr0, modes, drive_count, vdisk_drive, flags>>
    BY <2>1 DEF Call, Goto, cmdlineVars
  <2>3. /\ DOMAIN params' = Fields /\ params'.interrupt = interrupt
        /\ params'.command = command /\ params'.buffer = buffer /\ params'.esdi = buffer
        /\ params'.served = "pending"
    BY <2>2 DEF NoCall, Fields
  <2>4. caller' \in Cpu /\ cpu' \in Cpu
    BY <2>2 DEF CallerModes, Cpu
  <2>5. CallTypes'
    BY <2>2, <2>3, <2>4 DEF CallsInv, CallTypes, Calling
  <2>6. QuietInv' /\ ModeInv'
    BY <2>2 DEF QuietInv, ModeInv, Booting
  <2>7. TextModeAlways'
    BY <2>2 DEF CallsInv, TextModeAlways, Calling
  <2>8. ParamsInv' /\ DriveIsCounted'
    BY <2>1, <2>3 DEF ParamsInv, DriveIsCounted
  <2> QED BY <2>5, <2>6, <2>7, <2>8 DEF CallsInv
<1> QED BY <1>1, <1>2, <1>3, <1>4

\* call_interrupt_wrapper.
LEMMA WrapperStep ==
  ASSUME CallsInv, call_interrupt_wrapper
  PROVE  CallsInv'
<1> USE DEF CallsInv
<1>1. CASE WrapperInt13
  <2>1. /\ pc = "wrapper" /\ pc' = "emulate_int13" /\ IsInt13 /\ paging' = paging
        /\ saved' = IF paging THEN cpu ELSE saved
        /\ cpu' = IF paging THEN [cpu EXCEPT !.pae = TRUE, !.cr3 = "pdpt", !.pg = TRUE] ELSE cpu
        /\ UNCHANGED <<caller, cr0, modes, params, drive_count, vdisk_drive, flags>>
    BY <1>1 DEF WrapperInt13, enable_paging, pagingVars, MainUnchanged, Goto, int13Vars,
                cmdlineVars
  <2>2. cpu' \in Cpu /\ saved' \in Cpu
    BY <2>1 DEF CallTypes, Cpu
  <2>3. CallTypes'
    BY <2>1, <2>2 DEF CallTypes, Calling
  <2>4. QuietInv' /\ ModeInv'
    BY <2>1 DEF QuietInv, ModeInv, Booting, IsInt13
  <2>5. ParamsInv' /\ TextModeAlways' /\ DriveIsCounted'
    BY <2>1 DEF ParamsInv, TextModeAlways, Calling, DriveIsCounted
  <2> QED BY <2>3, <2>4, <2>5
<1>2. CASE EmulateInt13
  <2> DEFINE answer == Emulated(params.command, params.dl)
             data == IF params.command = "extended_read"
                     THEN Load(ram, Tables, initrd, initrd_len) ELSE <<>>
  <2>1. /\ pc = "emulate_int13" /\ pc' = "wrapped"
        /\ params' = [params EXCEPT !.cf = answer.cf, !.dl = answer.dl,
                                    !.served = answer.served, !.data = data]
        /\ UNCHANGED <<paging, saved, cpu, caller, cr0, modes, drive_count, vdisk_drive, flags>>
    BY <1>2 DEF EmulateInt13, MainUnchanged, Goto, memoryVars, cmdlineVars
  <2>2. params.command = "get_parameters" => vdisk_drive < answer.dl
    BY DEF Emulated, AtLeast, min_num_drives, CallTypes
  <2> HIDE DEF answer, data
  <2>3. /\ DOMAIN params' = Fields /\ params'.interrupt = params.interrupt
        /\ params'.command = params.command /\ params'.buffer = params.buffer
        /\ params'.dl = answer.dl
    BY <2>1 DEF CallTypes, Fields
  <2>4. CallTypes'
    BY <2>1, <2>3 DEF CallTypes, Calling
  <2>5. QuietInv' /\ ModeInv'
    BY <2>1 DEF QuietInv, ModeInv, Booting
  <2>6. ParamsInv' /\ TextModeAlways' /\ DriveIsCounted'
    BY <2>1, <2>2, <2>3 DEF ParamsInv, TextModeAlways, Calling, DriveIsCounted
  <2> QED BY <2>4, <2>5, <2>6
<1>3. CASE CallReal
  <2>1. /\ pc \in {"emulate_int13", "wrapper"} /\ pc' = "real"
        /\ pc = "wrapper" => ~IsInt13
        /\ cr0' = [pe |-> cpu.pe, pg |-> cpu.pg]
        /\ cpu' = [cpu EXCEPT !.pe = FALSE, !.pg = FALSE]
        /\ UNCHANGED <<paging, saved, caller, modes, params, drive_count, vdisk_drive, flags>>
    BY <1>3 DEF CallReal, pagingVars, Goto, int13Vars, cmdlineVars
  <2>2. cpu \in Cpu
    BY SMTT(30) DEF CallTypes
  <2>3. /\ cpu' \in Cpu /\ ~cpu'.pe /\ ~cpu'.pg
        /\ cpu = [cpu' EXCEPT !.pe = cpu.pe, !.pg = cpu.pg]
    BY <2>1, <2>2, PushPop
  <2>4. cr0' \in [pe : BOOLEAN, pg : BOOLEAN]
    BY <2>1, <2>2 DEF Cpu
  <2>5. CallTypes'
    BY <2>1, <2>3, <2>4 DEF CallTypes, Calling
  <2>6. cr0'.pe = cpu.pe /\ cr0'.pg = cpu.pg
    BY <2>1
  <2>7. ~(IsInt13 /\ paging) => cpu = caller
    BY <2>1 DEF ModeInv
  <2>8. IsInt13 /\ paging => saved = caller
    BY <2>1 DEF ModeInv
  <2>9. cpu = [cpu' EXCEPT !.pe = cr0'.pe, !.pg = cr0'.pg]
    BY <2>3, <2>6
  <2>10. QuietInv' /\ ModeInv'
    BY <2>1, <2>3, <2>7, <2>8, <2>9 DEF QuietInv, ModeInv, Booting, IsInt13
  <2>11. ParamsInv' /\ TextModeAlways' /\ DriveIsCounted'
    BY <2>1 DEF ParamsInv, TextModeAlways, Calling, DriveIsCounted
  <2> QED BY <2>5, <2>10, <2>11
<1>4. CASE ReturnFromReal
  <2>0. PICK bios \in [cf : BOOLEAN, dl : Drives], supported \in BOOLEAN,
             esdi \in Buffers \union {0} :
    /\ pc = "real"
    /\ LET answer == IF IsInt13 THEN PassedOn(params.command, bios)
                     ELSE [cf |-> bios.cf, dl |-> bios.dl, served |-> "bios"]
       IN  params' = [params EXCEPT !.cf = answer.cf, !.dl = answer.dl, !.esdi = esdi,
                                    !.served = answer.served]
    /\ modes' = IF params.command = "mode_info"
                THEN HideMode(params.esdi, esdi, [modes EXCEPT ![params.buffer] = supported])
                ELSE modes
    /\ cpu' = [cpu EXCEPT !.pe = cr0.pe, !.pg = cr0.pg]
    /\ Goto(IF IsInt13 THEN "wrapped" ELSE "bootmgr")
    /\ UNCHANGED <<machine, files, bootmgr, bootwim, raw_pe, pe, regions, caller, cr0, used>>
    /\ UNCHANGED pagingVars /\ UNCHANGED saved
    /\ UNCHANGED <<drive_count, vdisk_drive, cmdlineVars, cpioVars>>
    BY <1>4, ZenonT(60) DEF ReturnFromReal
  <2>1. /\ pc = "real"
        /\ modes' = IF params.command = "mode_info"
                    THEN HideMode(params.esdi, esdi, [modes EXCEPT ![params.buffer] = supported])
                    ELSE modes
        /\ cpu' = [cpu EXCEPT !.pe = cr0.pe, !.pg = cr0.pg]
        /\ pc' = IF IsInt13 THEN "wrapped" ELSE "bootmgr"
        /\ UNCHANGED <<paging, saved, caller, cr0, drive_count, vdisk_drive, flags>>
    BY <2>0 DEF pagingVars, Goto, cmdlineVars
  <2> DEFINE answer == IF IsInt13 THEN PassedOn(params.command, bios)
                       ELSE [cf |-> bios.cf, dl |-> bios.dl, served |-> "bios"]
  <2>2. bios.dl \in Nat
    BY Int13Assumption DEF Drives
  <2>3. params.command = "get_parameters" => vdisk_drive < answer.dl
    BY <2>2 DEF PassedOn, AtLeast, min_num_drives, CallTypes, ParamsInv, IsInt13
  <2>4. params' = [params EXCEPT !.cf = answer.cf, !.dl = answer.dl, !.esdi = esdi,
                                 !.served = answer.served]
    BY <2>0
  <2> HIDE DEF answer
  <2>5. /\ DOMAIN params' = Fields /\ params'.interrupt = params.interrupt
        /\ params'.command = params.command /\ params'.buffer = params.buffer
        /\ params'.dl = answer.dl
    BY <2>4 DEF CallTypes, Fields
  <2>6. cpu' \in Cpu
    BY <2>1 DEF CallTypes, Cpu
  <2>7. modes' \in [Buffers -> BOOLEAN]
    BY <2>1 DEF CallTypes, HideMode
  <2>8. pc' \in {"wrapped", "bootmgr"} /\ (IsInt13 <=> pc' = "wrapped")
    BY <2>1
  <2>9. CallTypes'
    BY <2>1, <2>5, <2>6, <2>7, <2>8 DEF CallTypes, Calling
  <2>10. ModeInv'
    <3>1. ~(IsInt13 /\ paging) => cpu' = caller
      BY <2>1 DEF ModeInv
    <3>2. IsInt13 /\ paging => saved = caller
      BY <2>1 DEF ModeInv
    <3> QED BY <2>1, <2>8, <3>1, <3>2 DEF ModeInv
  <2>11. QuietInv'
    BY <2>8 DEF QuietInv, Booting
  <2>12. ParamsInv' /\ DriveIsCounted'
    BY <2>1, <2>3, <2>5, <2>8 DEF ParamsInv, DriveIsCounted
  <2>13. TextModeAlways'
    <3> SUFFICES ASSUME ~flags.gui, NEW b \in Buffers
                 PROVE  ~modes'[b]
      BY <2>1 DEF TextModeAlways
    <3>1. ~modes[b]
      BY <2>1 DEF TextModeAlways, Calling
    <3>2. CASE params.command # "mode_info"
      BY <2>1, <3>1, <3>2
    <3>3. CASE params.command = "mode_info"
      <4>1. /\ params.interrupt = 16 /\ params.esdi = params.buffer
            /\ params.buffer \in Buffers
        BY <2>1, <3>3 DEF ParamsInv
      <4>2. HidesMode
        BY <3>3, <4>1 DEF HidesMode
      <4>3. modes' = [[modes EXCEPT ![params.buffer] = supported]
                        EXCEPT ![params.buffer] = FALSE]
        BY <2>1, <3>3, <4>1, <4>2 DEF HideMode
      <4> QED BY <3>1, <4>3, <4>1 DEF CallTypes
    <3> QED BY <3>2, <3>3
  <2> QED BY <2>9, <2>10, <2>11, <2>12, <2>13
<1>5. CASE WrapperReturns
  <2>1. /\ pc = "wrapped" /\ pc' = "bootmgr" /\ cpu' = (IF paging THEN saved ELSE cpu)
        /\ UNCHANGED <<paging, saved, caller, cr0, modes, params, drive_count, vdisk_drive, flags>>
    BY <1>5 DEF WrapperReturns, disable_paging, pagingVars, MainUnchanged, Goto, int13Vars,
                cmdlineVars
  <2>2. cpu' = caller
    BY <2>1 DEF ModeInv
  <2>3. CallTypes'
    BY <2>1, <2>2 DEF CallTypes, Calling
  <2>4. QuietInv' /\ ModeInv'
    BY <2>1, <2>2 DEF QuietInv, ModeInv, Booting
  <2>5. ParamsInv' /\ TextModeAlways' /\ DriveIsCounted'
    BY <2>1 DEF ParamsInv, TextModeAlways, Calling, DriveIsCounted
  <2> QED BY <2>3, <2>4, <2>5
<1> QED BY <1>1, <1>2, <1>3, <1>4, <1>5 DEF call_interrupt_wrapper

LEMMA CallsStep == CallsInv /\ [BootNext]_vars => CallsInv'
<1> SUFFICES ASSUME CallsInv, [BootNext]_vars PROVE CallsInv'
  OBVIOUS
<1>1. CASE main
  BY <1>1, BootingStep, BootmgrStep DEF main, Preparing
<1>2. CASE call_interrupt_wrapper
  BY <1>2, WrapperStep
<1>3. CASE UseMemory \/ CountDrives \/ MakeCall \/ BootmgrReturns
  BY <1>3, BootmgrStep
<1>4. CASE UNCHANGED vars
  <2>1. UNCHANGED callVars /\ UNCHANGED <<vdisk_drive, drive_count, flags, pc>>
    BY <1>4 DEF vars, callVars, mainVars, memoryVars, int13Vars, cmdlineVars
  <2>2. drive_count' \in Nat
    BY <2>1 DEF CallsInv, CallTypes
  <2> QED BY <2>1, <2>2, CallsFrame
<1> QED BY <1>1, <1>2, <1>3, <1>4 DEF BootNext

\* Where the caller's control registers are at each point of a call.
LEMMA CallsAlways == BootSpec => []CallsInv
BY CallsInit, CallsStep, PTL DEF BootSpec

\* Every call gives the boot manager its control registers back, in whatever mode it calls
\* and however the BIOS counts drives meanwhile, and the BIOS never runs with paging on.
THEOREM CallsAreTransparent == BootSpec => []CallerUndisturbed
<1>1. CallsInv => CallerUndisturbed
  BY DEF CallsInv, ModeInv, CallerUndisturbed
<1> QED BY <1>1, CallsAlways, PTL

\* Without the argument "gui" no video mode is ever left marked as supported: the pointer
\* that call_interrupt_wrapper took before the call is the buffer of the caller.
THEOREM TextModeIsForced == BootSpec => []TextModeForced
<1>1. CallsInv => TextModeForced
  BY DEF CallsInv, TextModeAlways, TextModeForced, Calling
<1> QED BY <1>1, CallsAlways, PTL

\* Every number of drives that is reported counts the emulated one.
THEOREM EmulatedDriveIsCounted == BootSpec => []DriveIsCounted
<1>1. CallsInv => DriveIsCounted
  BY DEF CallsInv
<1> QED BY <1>1, CallsAlways, PTL

----------------------------------------------------------------------------
(* The walk over the memory map *)

NoFailure(i) == \A k \in 1 .. i : e820[k].type # "error"

\* The entry that the caller of memmap_next has is the last one read, and the continuation
\* value is that of the entry behind it.
WalkInv ==
  /\ region \in 0 .. Len(e820)
  /\ region # 0 => /\ e820_ebx = region % Len(e820)
                   /\ IsRam(e820[region]) /\ NoFailure(region)

\* memmap_next goes from one region of RAM to the next, and returns NULL only if there is
\* no further one that can be read.
LEMMA NextRegion ==
  ASSUME IsMemoryMap(e820), WalkInv, memmap_next, e820' = e820
  PROVE  /\ WalkInv'
         /\ region' # 0 =>
              /\ region < region'
              /\ \A j \in 1 .. Len(e820) : region < j /\ j < region' => ~IsRam(e820[j])
         /\ region' = 0 =>
              \A j \in 1 .. Len(e820) : region < j => ~IsRam(e820[j]) \/ ~NoFailure(j)
<1> DEFINE last == Len(e820)
<1>1. last \in Nat \ {0} /\ region \in 0 .. last
  BY DEF IsMemoryMap, WalkInv
<1>2. CASE region # 0 /\ e820_ebx = 0
  <2>1. region % last = 0
    BY <1>2 DEF WalkInv
  <2>2. region = last
    <3>1. CASE region < last
      BY <1>1, <1>2, <2>1, <3>1, ModSmall
    <3> QED BY <1>1, <3>1
  <2>3. region' = 0
    BY <1>2 DEF memmap_next
  <2>4. \A j \in 1 .. last : ~(region < j)
    BY <1>1, <2>2
  <2> QED BY <1>1, <2>3, <2>4 DEF WalkInv
<1>3. CASE ~(region # 0 /\ e820_ebx = 0)
  <2> DEFINE base == IF region = 0 THEN 0 ELSE e820_ebx
             S == {j \in base + 1 .. last :
                     IsRam(e820[j]) \/ e820[j].type = "error" \/ j = last}
             i == Min(S)
  <2>1. base = region /\ region < last
    <3>1. CASE region = 0
      BY <1>1, <3>1
    <3>2. CASE region # 0
      <4>1. e820_ebx = region % last /\ e820_ebx # 0
        BY <1>3, <3>2 DEF WalkInv
      <4>2. region # last
        BY <1>1, <4>1, ModSelf
      <4>3. region < last
        BY <1>1, <4>2
      <4> QED BY <1>1, <3>2, <4>1, <4>3, ModSmall
    <3> QED BY <3>1, <3>2
  <2>2. S \in SUBSET Nat /\ last \in S
    BY <1>1, <2>1
  <2>3. i \in S /\ \A y \in S : i <= y
    BY <2>2, MinNat
  <2>4. e820_ebx' = i % last /\ region' = IF IsRam(e820[i]) THEN i ELSE 0
    BY <1>3 DEF memmap_next, Answer
  <2> HIDE DEF i
  <2>5. /\ i \in 1 .. last /\ region < i
        /\ IsRam(e820[i]) \/ e820[i].type = "error" \/ i = last
    BY <1>1, <2>1, <2>3
  <2>6. ASSUME NEW j \in 1 .. last, region < j, j < i
        PROVE  ~IsRam(e820[j]) /\ e820[j].type # "error"
    <3>1. j \in S \/ (~IsRam(e820[j]) /\ e820[j].type # "error")
      BY <1>1, <2>1, <2>6
    <3>2. j \notin S
      BY <1>1, <2>3, <2>5, <2>6
    <3> QED BY <3>1, <3>2
  <2> HIDE DEF S, base
  <2>7. CASE IsRam(e820[i])
    <3>1. region' = i
      BY <2>4, <2>7
    <3>2. NoFailure(i)
      <4> SUFFICES ASSUME NEW k \in 1 .. i PROVE e820[k].type # "error"
        BY DEF NoFailure
      <4>1. CASE k <= region
        <5>1. region # 0 /\ k \in 1 .. region
          BY <1>1, <2>5, <4>1
        <5> QED BY <5>1 DEF WalkInv, NoFailure
      <4>2. CASE region < k /\ k < i
        BY <1>1, <2>5, <2>6, <4>2
      <4>3. CASE k = i
        BY <2>7, <4>3 DEF IsRam
      <4> QED BY <1>1, <2>5, <4>1, <4>2, <4>3
    <3>3. WalkInv'
      BY <1>1, <2>4, <2>5, <2>7, <3>1, <3>2 DEF WalkInv, NoFailure, IsRam
    <3> QED BY <1>1, <2>5, <2>6, <3>1, <3>3
  <2>8. CASE ~IsRam(e820[i])
    <3>1. region' = 0
      BY <2>4, <2>8
    <3>2. ASSUME NEW j \in 1 .. last, region < j, IsRam(e820[j]) PROVE ~NoFailure(j)
      <4>1. i < j
        BY <1>1, <2>5, <2>6, <2>8, <3>2
      <4>2. e820[i].type = "error"
        BY <1>1, <2>5, <2>8, <4>1
      <4> QED BY <1>1, <2>5, <4>1, <4>2 DEF NoFailure
    <3> QED BY <1>1, <3>1, <3>2 DEF WalkInv
  <2> QED BY <2>7, <2>8
<1> QED BY <1>2, <1>3

----------------------------------------------------------------------------
(* Places above 4GB *)

\* The places of which HighIfPossible speaks.
HighPlaces ==
  {p \in ADDR_4GB .. MemorySize - 1 :
     /\ (p - initrd) % PAGE_SIZE_2MB = 0
     /\ \E r \in Reported : Cells(p, initrd_len) \subseteq Cells(r.start, r.len)}

\* The place that relocate_memory_high computes is the highest one below the end of a
\* region that has the offset of the initrd in its 2MB pages.
LEMMA HighestPlace ==
  ASSUME NEW size \in Nat \ {0}, NEW at \in Int, NEW len \in Nat, NEW end \in Int,
         NEW place, place = Down(end - (at + len), size) + (at + len) - len
  PROVE  /\ place \in Int /\ place + len <= end /\ (place - at) % size = 0
         /\ \A p \in Int : (p - at) % size = 0 /\ p + len <= end => p <= place
<1> DEFINE room == end - (at + len)
           q == room \div size
<1>1. room \in Int
  OBVIOUS
<1>2. q \in Int /\ room % size \in 0 .. size - 1 /\ room = size * q + (room % size)
  BY <1>1, DivMod
<1>3. place = size * q + (at + len) - len
  BY DEF Down
<1>4. room = end - (at + len)
  OBVIOUS
<1> HIDE DEF q, room
<1>5. size * q \in Int
  BY <1>2
<1>6. place \in Int /\ place = at + size * q
  BY <1>3, <1>5
<1>7. place + len <= end
  BY <1>1, <1>2, <1>4, <1>5, <1>6
<1>8. (place - at) % size = 0
  <2>1. place - at = size * q
    BY <1>5, <1>6
  <2>2. size * q <= size * q /\ size * q < size * q + size
    BY <1>5
  <2>3. (size * q) % size = size * q - size * q
    BY <1>2, <1>5, <2>2, QuotientIs
  <2> QED BY <1>5, <2>1, <2>3
<1>9. ASSUME NEW p \in Int, (p - at) % size = 0, p + len <= end
      PROVE  p <= place
  <2> DEFINE d == p - at
             k == d \div size
  <2>1. d \in Int /\ d % size = 0
    BY <1>9
  <2>2. k \in Int /\ d = size * k + (d % size)
    BY <2>1, DivMod
  <2>3. d = p - at
    OBVIOUS
  <2> HIDE DEF d, k
  <2>4. size * k \in Int
    BY <2>2
  <2>5. size * k <= room
    BY <1>1, <1>4, <1>9, <2>1, <2>2, <2>3, <2>4
  <2>6. k <= q
    <3>1. CASE k >= q + 1
      <4>1. size * (q + 1) <= size * k
        BY <1>2, <2>2, <3>1, TimesKeepsOrder
      <4>2. size * (q + 1) = size * q + size
        BY <1>2
      <4> QED BY <1>1, <1>2, <1>5, <2>4, <2>5, <4>1, <4>2
    <3> QED BY <1>2, <2>2, <3>1
  <2>7. size * k <= size * q
    BY <1>2, <2>2, <2>6, TimesKeepsOrder
  <2> QED BY <1>5, <1>6, <2>1, <2>2, <2>3, <2>4, <2>7
<1> QED BY <1>6, <1>7, <1>8, <1>9

\* A stretch of cells that is not empty lies in another if its ends do.
LEMMA CellsWithin ==
  ASSUME NEW p \in Int, NEW n \in Nat \ {0}, NEW a \in Int, NEW l \in Nat
  PROVE  Cells(p, n) \subseteq Cells(a, l) <=> a <= p /\ p + n <= a + l
<1>1. p \in Cells(p, n) /\ p + n - 1 \in Cells(p, n)
  BY DEF Cells
<1>2. ASSUME Cells(p, n) \subseteq Cells(a, l) PROVE a <= p /\ p + n <= a + l
  <2>1. p \in Cells(a, l) /\ p + n - 1 \in Cells(a, l)
    BY <1>1, <1>2
  <2> QED BY <2>1 DEF Cells
<1>3. ASSUME a <= p, p + n <= a + l PROVE Cells(p, n) \subseteq Cells(a, l)
  BY <1>3 DEF Cells
<1> QED BY <1>2, <1>3

\* A region that the code accepts yields a place, and a place is in a region that the
\* code accepts.
LEMMA FitsIsPlace ==
  ASSUME IsMemoryMap(e820), initrd \in Int, initrd_len \in Nat \ {0}
  PROVE  /\ \A j \in 1 .. Len(e820) :
              IsRam(e820[j]) /\ NoFailure(j) /\ FitsHigh(e820[j]) =>
                HighStart(e820[j]) \in HighPlaces
         /\ \A p \in HighPlaces : \E j \in 1 .. Len(e820) :
              IsRam(e820[j]) /\ NoFailure(j) /\ FitsHigh(e820[j])
<1>1. PAGE_SIZE_2MB \in Nat \ {0} /\ ADDR_4GB \in Nat /\ MemorySize \in Nat
  BY MemoryAssumption
<1>2. ASSUME NEW j \in 1 .. Len(e820), IsRam(e820[j])
      PROVE  /\ e820[j].start \in Nat /\ e820[j].len \in Nat
             /\ EndOf(e820[j]) \in Nat /\ EndOf(e820[j]) <= MemorySize
             /\ EndOf(e820[j]) = e820[j].start + e820[j].len
  <2>1. e820[j] \in Entries
    BY DEF IsMemoryMap
  <2>2. e820[j].start \in Nat /\ e820[j].len \in Nat
    BY <2>1 DEF Entries
  <2>3. e820[j].start + e820[j].len <= MemorySize
    BY <1>2 DEF IsMemoryMap
  <2> QED BY <2>2, <2>3 DEF EndOf
<1>3. ASSUME NEW j \in 1 .. Len(e820), IsRam(e820[j])
      PROVE  LET place == HighStart(e820[j])
             IN  /\ place \in Int /\ place + initrd_len <= EndOf(e820[j])
                 /\ (place - initrd) % PAGE_SIZE_2MB = 0
                 /\ \A p \in Int : (p - initrd) % PAGE_SIZE_2MB = 0
                                   /\ p + initrd_len <= EndOf(e820[j]) => p <= place
  <2> DEFINE place == HighStart(e820[j])
             end == EndOf(e820[j])
  <2>1. end \in Int
    BY <1>2, <1>3
  <2>2. place = Down(end - (initrd + initrd_len), PAGE_SIZE_2MB) + (initrd + initrd_len)
                  - initrd_len
    BY DEF HighStart
  <2> HIDE DEF place, end
  <2>3. /\ place \in Int /\ place + initrd_len <= end
        /\ (place - initrd) % PAGE_SIZE_2MB = 0
        /\ \A p \in Int : (p - initrd) % PAGE_SIZE_2MB = 0
                          /\ p + initrd_len <= end => p <= place
    <3>1. initrd_len \in Nat /\ initrd \in Int
      OBVIOUS
    <3>2. PAGE_SIZE_2MB \in Nat \ {0}
      BY <1>1
    <3>3. \A size \in Nat \ {0}, at \in Int, len \in Nat, e \in Int : \A pl :
            pl = Down(e - (at + len), size) + (at + len) - len =>
              /\ pl \in Int /\ pl + len <= e /\ (pl - at) % size = 0
              /\ \A p \in Int : (p - at) % size = 0 /\ p + len <= e => p <= pl
      BY HighestPlace, Zenon
    <3>4. place = Down(end - (initrd + initrd_len), PAGE_SIZE_2MB) + (initrd + initrd_len)
                    - initrd_len =>
              /\ place \in Int /\ place + initrd_len <= end
              /\ (place - initrd) % PAGE_SIZE_2MB = 0
              /\ \A p \in Int : (p - initrd) % PAGE_SIZE_2MB = 0 /\ p + initrd_len <= end
                                => p <= place
      BY <2>1, <3>1, <3>2, <3>3
    <3> QED BY <2>2, <3>4, Zenon
  <2> QED BY <2>3 DEF place, end
<1>4. ASSUME NEW j \in 1 .. Len(e820), IsRam(e820[j]), NoFailure(j), FitsHigh(e820[j])
      PROVE  HighStart(e820[j]) \in HighPlaces
  <2> DEFINE place == HighStart(e820[j])
  <2>1. e820[j] \in Reported
    BY <1>4 DEF Reported, NoFailure
  <2>2. place >= e820[j].start /\ place >= ADDR_4GB
    BY <1>4 DEF FitsHigh
  <2>3. /\ place \in Int /\ place + initrd_len <= EndOf(e820[j])
        /\ (place - initrd) % PAGE_SIZE_2MB = 0
    BY <1>3, <1>4
  <2> HIDE DEF place
  <2>4. /\ e820[j].start \in Nat /\ e820[j].len \in Nat
        /\ EndOf(e820[j]) \in Nat /\ EndOf(e820[j]) <= MemorySize
        /\ EndOf(e820[j]) = e820[j].start + e820[j].len
    BY <1>2, <1>4
  <2>5. Cells(place, initrd_len) \subseteq Cells(e820[j].start, e820[j].len)
    BY <2>2, <2>3, <2>4, CellsWithin, SMTT(30)
  <2>6. place \in ADDR_4GB .. MemorySize - 1
    BY <1>1, <2>2, <2>3, <2>4
  <2>7. place \in HighPlaces
    BY <2>1, <2>3, <2>5, <2>6 DEF HighPlaces
  <2> QED BY <2>7 DEF place
<1>5. ASSUME NEW p \in HighPlaces
      PROVE  \E j \in 1 .. Len(e820) : IsRam(e820[j]) /\ NoFailure(j) /\ FitsHigh(e820[j])
  <2>1. PICK r \in Reported : Cells(p, initrd_len) \subseteq Cells(r.start, r.len)
    BY DEF HighPlaces
  <2>2. PICK j \in 1 .. Len(e820) : IsRam(e820[j]) /\ NoFailure(j) /\ r = e820[j]
    BY DEF Reported, NoFailure
  <2>3. p \in Int /\ p >= ADDR_4GB /\ (p - initrd) % PAGE_SIZE_2MB = 0
    BY <1>1 DEF HighPlaces
  <2>4. /\ e820[j].start \in Nat /\ e820[j].len \in Nat
        /\ EndOf(e820[j]) \in Nat
        /\ EndOf(e820[j]) = e820[j].start + e820[j].len
    BY <1>2, <2>2
  <2>5. e820[j].start <= p /\ p + initrd_len <= EndOf(e820[j])
    <3>1. Cells(p, initrd_len) \subseteq Cells(e820[j].start, e820[j].len)
      BY <2>1, <2>2
    <3>2. e820[j].start <= p /\ p + initrd_len <= e820[j].start + e820[j].len
      <4>1. e820[j].start \in Int
        BY <2>4
      <4> QED BY <2>3, <2>4, <3>1, <4>1, CellsWithin, Zenon
    <3> QED BY <2>4, <3>2
  <2>6. HighStart(e820[j]) \in Int /\ p <= HighStart(e820[j])
    BY <1>3, <2>2, <2>3, <2>5
  <2>7. FitsHigh(e820[j])
    BY <1>1, <2>3, <2>4, <2>5, <2>6 DEF FitsHigh
  <2> QED BY <2>2, <2>7
<1> QED BY <1>4, <1>5

----------------------------------------------------------------------------
(* Relocation of the initrd *)

PlaceTypes ==
  /\ IsMemoryMap(e820)
  /\ memory_pc \in {"low", "low_try", "placed", "high", "high_try", "copy", "relocated"}
  /\ paging \in BOOLEAN /\ pd \in [Pages -> Int]
  /\ initrd \in Int /\ initrd_len \in Nat /\ copied \in Nat

Trying == memory_pc \in {"low_try", "high_try"} => region # 0

\* The page directory: nothing has been mapped elsewhere before the copy; during it the
\* pages of the initrd, and the page of the copy window, may be.
PageInv ==
  /\ paging /\ memory_pc \notin {"copy", "relocated"} => pd = Identity
  /\ paging /\ memory_pc = "copy" =>
       \A p \in Pages \ InitrdPages : p # 1 => pd[p] = p * PAGE_SIZE_2MB
  /\ OthersUnmoved

NoneFits(i) ==
  \A j \in 1 .. Len(e820) : j <= i /\ IsRam(e820[j]) => ~FitsHigh(e820[j])

\* The regions that the walk has passed cannot hold the initrd above 4GB, and the one that
\* it stops at can.
HighInv ==
  /\ memory_pc = "high" => paging /\ NoneFits(region)
  /\ memory_pc = "high_try" => paging /\ NoneFits(region - 1)
  /\ memory_pc = "copy" => paging /\ dest \in HighPlaces
  /\ memory_pc = "relocated" =>
       IF paging /\ HighPlaces # {} THEN initrd_phys \in HighPlaces ELSE initrd_phys = initrd

MemoryInv == PlaceTypes /\ WalkInv /\ Trying /\ PageInv /\ HighInv

placeVars == <<e820, e820_ebx, region, pd, paging, initrd, initrd_len, dest, copied,
               initrd_phys, memory_pc>>

LEMMA MemoryFrame ==
  ASSUME MemoryInv, UNCHANGED placeVars
  PROVE  MemoryInv'
<1>1. UNCHANGED <<e820, e820_ebx, region, pd, paging, initrd, initrd_len, dest, copied,
                  initrd_phys, memory_pc>>
  BY DEF placeVars
<1>2. PlaceTypes'
  BY <1>1 DEF MemoryInv, PlaceTypes, IsMemoryMap, IsRam
<1>3. WalkInv' /\ Trying'
  BY <1>1 DEF MemoryInv, WalkInv, Trying, IsRam, NoFailure
<1>4. PageInv'
  BY <1>1 DEF MemoryInv, PageInv, OthersUnmoved, InitrdPages, Cells
<1>5. HighPlaces' = HighPlaces
  BY <1>1 DEF HighPlaces, Reported, IsRam, Cells
<1>6. \A i : NoneFits(i)' <=> NoneFits(i)
  BY <1>1 DEF NoneFits, FitsHigh, HighStart, EndOf, IsRam, Down
<1>7. HighInv'
  BY <1>1, <1>5, <1>6 DEF MemoryInv, HighInv, NoneFits, FitsHigh, HighStart, EndOf, IsRam, Down
<1> QED BY <1>2, <1>3, <1>4, <1>7 DEF MemoryInv

LEMMA LowStep ==
  ASSUME MemoryInv, relocate_memory_low
  PROVE  MemoryInv' /\ memory_pc' \in {"low", "low_try", "placed"}
<1> USE DEF MemoryInv
<1>1. CASE NextLow
  <2>1. /\ memory_pc = "low" /\ memmap_next
        /\ memory_pc' = IF region' = 0 THEN "placed" ELSE "low_try"
        /\ UNCHANGED <<e820, paging, pd, initrd, initrd_len, dest, copied, initrd_phys>>
    BY <1>1 DEF NextLow, givenVars
  <2>2. WalkInv'
    BY <2>1, NextRegion DEF PlaceTypes
  <2>3. PlaceTypes' /\ Trying' /\ PageInv' /\ HighInv'
    BY <2>1 DEF PlaceTypes, Trying, PageInv, HighInv, OthersUnmoved
  <2> QED BY <2>1, <2>2, <2>3
<1>2. CASE TryLow
  <2>1. /\ memory_pc = "low_try" /\ memory_pc' \in {"placed", "low"}
        /\ initrd' = initrd \/ initrd' = LowStart(e820[region])
        /\ region' = 0 \/ region' = region
        /\ UNCHANGED <<e820, e820_ebx, paging, pd, initrd_len, dest, copied, initrd_phys>>
    BY <1>2 DEF TryLow, givenVars
  <2>2. WalkInv'
    BY <2>1 DEF WalkInv, PlaceTypes, IsMemoryMap, NoFailure
  <2>3. LowStart(e820[region]) \in Int
    <3>1. e820[region] \in Entries
      BY <2>1 DEF PlaceTypes, IsMemoryMap, WalkInv, Trying
    <3>2. EndOf(e820[region]) \in Nat
      BY <3>1 DEF Entries, EndOf
    <3>3. PAGE_SIZE \in Nat \ {0} /\ ADDR_2GB \in Nat
      BY MemoryAssumption
    <3>4. Minimum(EndOf(e820[region]), ADDR_2GB) - initrd_len \in Int
      BY <3>2, <3>3 DEF PlaceTypes, Minimum
    <3> QED BY <3>3, <3>4 DEF LowStart, Down
  <2>4. PlaceTypes' /\ Trying' /\ PageInv' /\ HighInv'
    BY <2>1, <2>3 DEF PlaceTypes, Trying, PageInv, HighInv, OthersUnmoved
  <2> QED BY <2>1, <2>2, <2>4
<1> QED BY <1>1, <1>2 DEF relocate_memory_low

LEMMA StartHighStep ==
  ASSUME MemoryInv, StartHigh
  PROVE  MemoryInv' /\ memory_pc' \in {"high", "relocated"}
<1> USE DEF MemoryInv
<1>1. /\ memory_pc = "placed" /\ region' = 0
      /\ IF paging THEN memory_pc' = "high" /\ UNCHANGED initrd_phys
                   ELSE memory_pc' = "relocated" /\ initrd_phys' = initrd
      /\ UNCHANGED <<e820, paging, pd, initrd, initrd_len, dest, copied>>
  BY DEF StartHigh, givenVars
<1>2. PlaceTypes' /\ Trying'
  BY <1>1 DEF PlaceTypes, Trying
<1>3. WalkInv'
  BY <1>1 DEF WalkInv, PlaceTypes, IsMemoryMap
<1>4. PageInv'
  BY <1>1 DEF PageInv, OthersUnmoved
<1>5. NoneFits(region)'
  BY <1>1, <1>2 DEF NoneFits
<1>6. HighInv'
  BY <1>1, <1>5 DEF HighInv
<1> QED BY <1>1, <1>2, <1>3, <1>4, <1>6

\* In the identity map every page is where it is without paging.
LEMMA IdentityUnmoved == \A p \in Pages : Identity[p] = p * PAGE_SIZE_2MB
BY DEF Identity

LEMMA NextHighStep ==
  ASSUME MemoryInv, NextHigh, initrd_len # 0
  PROVE  MemoryInv' /\ memory_pc' \in {"high_try", "relocated"}
<1> USE DEF MemoryInv
<1>1. /\ memory_pc = "high" /\ memmap_next
      /\ IF region' = 0 THEN memory_pc' = "relocated" /\ initrd_phys' = initrd
                        ELSE memory_pc' = "high_try" /\ UNCHANGED initrd_phys
      /\ UNCHANGED <<e820, paging, pd, initrd, initrd_len, dest, copied>>
  BY DEF NextHigh, givenVars
<1>2. IsMemoryMap(e820) /\ initrd \in Int /\ initrd_len \in Nat \ {0}
  BY DEF PlaceTypes
<1>3. /\ WalkInv'
      /\ region' # 0 =>
           /\ region < region'
           /\ \A j \in 1 .. Len(e820) : region < j /\ j < region' => ~IsRam(e820[j])
      /\ region' = 0 =>
           \A j \in 1 .. Len(e820) : region < j => ~IsRam(e820[j]) \/ ~NoFailure(j)
  BY <1>1, <1>2, NextRegion
<1>4. PlaceTypes' /\ Trying'
  BY <1>1 DEF PlaceTypes, Trying
<1>5. PageInv'
  BY <1>1, IdentityUnmoved DEF PageInv, OthersUnmoved
<1>6. NoneFits(region) /\ paging /\ region \in Nat /\ region' \in Nat
  BY <1>1, <1>2, <1>3 DEF HighInv, WalkInv, IsMemoryMap
<1>7. CASE region' = 0
  <2>1. \A j \in 1 .. Len(e820) : ~(IsRam(e820[j]) /\ NoFailure(j) /\ FitsHigh(e820[j]))
    BY <1>2, <1>3, <1>6, <1>7 DEF NoneFits, IsMemoryMap
  <2>2. HighPlaces = {}
    BY <1>2, <2>1, FitsIsPlace
  <2>3. HighPlaces' = HighPlaces
    BY <1>1 DEF HighPlaces, Reported, IsRam, Cells
  <2>4. HighInv'
    BY <1>1, <1>7, <2>2, <2>3 DEF HighInv
  <2> QED BY <1>1, <1>3, <1>4, <1>5, <1>7, <2>4
<1>8. CASE region' # 0
  <2> DEFINE before == region' - 1
  <2>1. before \in Nat /\ \A j \in Int : j <= before => j < region'
    <3> DEFINE r == region'
    <3>1. r \in Nat /\ r # 0
      BY <1>6, <1>8
    <3> HIDE DEF r
    <3>2. r - 1 \in Nat /\ \A j \in Int : j <= r - 1 => j < r
      BY <3>1
    <3> QED BY <3>2 DEF r
  <2>2. ASSUME NEW j \in 1 .. Len(e820), j < region', IsRam(e820[j])
        PROVE  ~FitsHigh(e820[j])
    <3>1. j <= region
      BY <1>2, <1>3, <1>6, <1>8, <2>2 DEF IsMemoryMap
    <3> QED BY <1>6, <2>2, <3>1 DEF NoneFits
  <2> HIDE DEF before
  <2>3. NoneFits(before)
    BY <1>2, <2>1, <2>2 DEF NoneFits, IsMemoryMap
  <2>4. NoneFits(region - 1)'
    BY <1>1, <2>3 DEF before, NoneFits, FitsHigh, HighStart, EndOf, IsRam
  <2>5. HighInv'
    BY <1>1, <1>6, <1>8, <2>4 DEF HighInv
  <2> QED BY <1>1, <1>3, <1>4, <1>5, <1>8, <2>5
<1> QED BY <1>7, <1>8

LEMMA TryHighStep ==
  ASSUME MemoryInv, TryHigh, initrd_len # 0
  PROVE  MemoryInv' /\ memory_pc' \in {"copy", "high"}
<1> USE DEF MemoryInv
<1>1. /\ memory_pc = "high_try"
      /\ IF FitsHigh(e820[region])
         THEN dest' = HighStart(e820[region]) /\ copied' = 0 /\ memory_pc' = "copy"
         ELSE memory_pc' = "high" /\ UNCHANGED <<dest, copied>>
      /\ UNCHANGED <<e820, e820_ebx, region, paging, pd, initrd, initrd_len, initrd_phys>>
  BY DEF TryHigh, givenVars, walkVars
<1>2. IsMemoryMap(e820) /\ initrd \in Int /\ initrd_len \in Nat \ {0}
  BY DEF PlaceTypes
<1>3. /\ region \in 1 .. Len(e820) /\ IsRam(e820[region]) /\ NoFailure(region)
      /\ paging /\ NoneFits(region - 1)
  BY <1>1, <1>2 DEF WalkInv, Trying, HighInv, IsMemoryMap
<1>4. PlaceTypes' /\ Trying'
  BY <1>1 DEF PlaceTypes, Trying
<1>5. WalkInv'
  BY <1>1 DEF WalkInv, NoFailure, IsRam
<1>6. PageInv'
  BY <1>1, IdentityUnmoved DEF PageInv, OthersUnmoved
<1>7. CASE FitsHigh(e820[region])
  <2>1. dest' \in HighPlaces
    BY <1>1, <1>2, <1>3, <1>7, FitsIsPlace
  <2>2. HighPlaces' = HighPlaces
    BY <1>1 DEF HighPlaces, Reported, IsRam, Cells
  <2>3. HighInv'
    BY <1>1, <1>3, <1>7, <2>1, <2>2 DEF HighInv
  <2> QED BY <1>1, <1>4, <1>5, <1>6, <1>7, <2>3
<1>8. CASE ~FitsHigh(e820[region])
  <2>1. NoneFits(region)
    <3> SUFFICES ASSUME NEW j \in 1 .. Len(e820), j <= region, IsRam(e820[j])
                 PROVE  ~FitsHigh(e820[j])
      BY DEF NoneFits
    <3>1. j = region \/ j <= region - 1
      BY <1>2, <1>3 DEF IsMemoryMap
    <3> QED BY <1>3, <1>8, <3>1 DEF NoneFits
  <2>2. NoneFits(region)'
    BY <1>1, <2>1 DEF NoneFits, FitsHigh, HighStart, EndOf, IsRam
  <2>3. HighInv'
    BY <1>1, <1>3, <1>8, <2>2 DEF HighInv
  <2> QED BY <1>1, <1>4, <1>5, <1>6, <1>8, <2>3
<1> QED BY <1>7, <1>8

\* Page 1 is the page of the copy window.
LEMMA WindowPage == COPY_WINDOW \div PAGE_SIZE_2MB = 1 /\ COPY_WINDOW = 1 * PAGE_SIZE_2MB
<1>1. PAGE_SIZE_2MB \in Nat \ {0} /\ COPY_WINDOW = PAGE_SIZE_2MB
  BY MemoryAssumption
<1>2. PAGE_SIZE_2MB \div PAGE_SIZE_2MB = 1
  BY <1>1, ModSelf
<1> QED BY <1>1, <1>2

LEMMA CopyPageStep ==
  ASSUME MemoryInv, CopyPage
  PROVE  MemoryInv' /\ memory_pc' = "copy"
<1> USE DEF MemoryInv
<1> DEFINE data     == initrd + copied
           offset   == data % PAGE_SIZE_2MB
           frag_len == Minimum(PAGE_SIZE_2MB - offset, initrd_len - copied)
           page     == Down(dest + copied, PAGE_SIZE_2MB)
           window   == map_page(pd, COPY_WINDOW, page)
<1>1. /\ memory_pc = "copy" /\ memory_pc' = memory_pc /\ copied < initrd_len
      /\ pd' = map_page(window, data, page) /\ copied' = copied + frag_len
      /\ UNCHANGED <<e820, e820_ebx, region, paging, initrd, initrd_len, dest, initrd_phys>>
  BY DEF CopyPage, givenVars, walkVars
<1>2. /\ PAGE_SIZE_2MB \in Nat \ {0} /\ initrd \in Int /\ initrd_len \in Nat /\ copied \in Nat
      /\ ADDR_4GB \in Nat /\ MemorySize \in Nat
  BY MemoryAssumption DEF PlaceTypes
<1>3. paging /\ dest \in HighPlaces
  BY <1>1 DEF HighInv
<1>4. dest \in Int
  BY <1>2, <1>3 DEF HighPlaces
<1>5. page \in Int
  BY <1>2, <1>4 DEF Down
<1>6. data \in Int /\ offset \in 0 .. PAGE_SIZE_2MB - 1 /\ data \in Cells(initrd, initrd_len)
  <2>1. data \in Int
    BY <1>2
  <2>2. offset \in 0 .. PAGE_SIZE_2MB - 1
    BY <1>2, <2>1, DivMod
  <2> QED BY <1>1, <1>2, <2>1, <2>2 DEF Cells
<1>7. copied' \in Nat
  BY <1>1, <1>2, <1>6 DEF Minimum
<1> HIDE DEF page, offset, frag_len
<1>8. pd' = [[pd EXCEPT ![1] = page] EXCEPT ![data \div PAGE_SIZE_2MB] = page]
  BY <1>1, WindowPage DEF map_page
<1>9. pd' \in [Pages -> Int]
  BY <1>5, <1>8 DEF PlaceTypes
<1>10. PlaceTypes' /\ Trying'
  BY <1>1, <1>7, <1>9 DEF PlaceTypes, Trying
<1>11. WalkInv'
  BY <1>1 DEF WalkInv, NoFailure, IsRam
<1>12. data \div PAGE_SIZE_2MB \in InitrdPages
  BY <1>6 DEF InitrdPages
<1>13. InitrdPages' = InitrdPages
  BY <1>1 DEF InitrdPages, Cells
<1> HIDE DEF data
<1>14. ASSUME NEW p \in Pages \ InitrdPages, p # 1
       PROVE  pd'[p] = p * PAGE_SIZE_2MB
  <2>1. pd[p] = p * PAGE_SIZE_2MB
    BY <1>1, <1>3, <1>14 DEF PageInv
  <2>2. pd'[p] = pd[p]
    BY <1>8, <1>12, <1>14 DEF PlaceTypes
  <2> QED BY <2>1, <2>2
<1>15. PageInv'
  BY <1>1, <1>3, <1>13, <1>14 DEF PageInv, OthersUnmoved
<1>16. HighPlaces' = HighPlaces
  BY <1>1 DEF HighPlaces, Reported, IsRam, Cells
<1>17. HighInv'
  BY <1>1, <1>3, <1>16 DEF HighInv
<1> QED BY <1>1, <1>10, <1>11, <1>15, <1>17

LEMMA CopiedStep ==
  ASSUME MemoryInv, Copied
  PROVE  MemoryInv' /\ memory_pc' = "relocated"
<1> USE DEF MemoryInv
<1>1. /\ memory_pc = "copy" /\ memory_pc' = "relocated" /\ initrd_phys' = dest
      /\ pd' = map_page(pd, COPY_WINDOW, COPY_WINDOW)
      /\ UNCHANGED <<e820, e820_ebx, region, paging, initrd, initrd_len, dest, copied>>
  BY DEF Copied, givenVars, walkVars
<1>2. paging /\ dest \in HighPlaces
  BY <1>1 DEF HighInv
<1>3. pd' = [pd EXCEPT ![1] = COPY_WINDOW] /\ COPY_WINDOW \in Int
  <2>1. COPY_WINDOW \in Int
    BY MemoryAssumption
  <2> QED BY <1>1, <2>1, WindowPage DEF map_page
<1>4. PlaceTypes' /\ Trying'
  BY <1>1, <1>3 DEF PlaceTypes, Trying
<1>5. WalkInv'
  BY <1>1 DEF WalkInv, NoFailure, IsRam
<1>6. InitrdPages' = InitrdPages /\ HighPlaces' = HighPlaces
  BY <1>1 DEF InitrdPages, HighPlaces, Reported, IsRam, Cells
<1>7. ASSUME NEW p \in Pages \ InitrdPages
      PROVE  pd'[p] = p * PAGE_SIZE_2MB
  <2>1. CASE p = 1
    BY <1>3, <2>1, WindowPage DEF PlaceTypes
  <2>2. CASE p # 1
    BY <1>1, <1>2, <1>3, <2>2 DEF PageInv, PlaceTypes
  <2> QED BY <2>1, <2>2
<1>8. PageInv'
  BY <1>1, <1>6, <1>7 DEF PageInv, OthersUnmoved
<1>9. HighInv'
  BY <1>1, <1>2, <1>6 DEF HighInv
<1> QED BY <1>1, <1>4, <1>5, <1>8, <1>9

\* How far main is tells how far the relocation is.
PhaseInv ==
  /\ pc \in {"process_cmdline", "init_paging", "enable_paging", "relocate_low"} =>
       memory_pc \in {"low", "low_try"}
  /\ pc \in {"extract", "wim", "int13", "read_pe", "load_pe", "load_sections"} =>
       memory_pc = "placed"
  /\ pc = "relocate_high" => memory_pc \in {"placed", "high", "high_try", "copy"}
  /\ pc \in {"describe", "disable_paging"} \union Calling => memory_pc = "relocated"

\* An empty initrd has no bootmgr.exe in it, so main does not get to move it.
PresentInv ==
  /\ initrd_len = 0 => cpio_len = 0 /\ bootmgr = 0 /\ bootwim = 0
  /\ pc \in {"read_pe", "load_pe", "load_sections", "relocate_high"} => bootmgr # 0

PlacedInv == MemoryInv /\ PhaseInv /\ PresentInv

LEMMA PlacedInit == BootInit => PlacedInv
<1> SUFFICES ASSUME BootInit PROVE PlacedInv
  OBVIOUS
<1>1. PlaceTypes
  <2>1. /\ IsMemoryMap(e820) /\ memory_pc = "low" /\ paging = FALSE /\ copied = 0
        /\ pd = [p \in Pages |-> 0] /\ initrd \in Nat /\ initrd_len \in Nat
    BY DEF BootInit
  <2>2. pd \in [Pages -> Int]
    BY <2>1
  <2>3. initrd \in Int /\ copied \in Nat
    BY <2>1
  <2> QED BY <2>1, <2>2, <2>3, Zenon DEF PlaceTypes
<1>2. WalkInv
  BY DEF BootInit, WalkInv, IsMemoryMap
<1>3. Trying /\ PageInv /\ HighInv /\ PhaseInv
  BY DEF BootInit, Trying, PageInv, OthersUnmoved, HighInv, PhaseInv, Calling
<1>4. PresentInv
  BY DEF BootInit, CpioInit, PresentInv
<1> QED BY <1>1, <1>2, <1>3, <1>4 DEF PlacedInv, MemoryInv

\* The steps of main that do not move the initrd.
LEMMA StayingStep ==
  ASSUME PlacedInv,
         \/ ProcessCmdline \/ EnablePaging \/ CpioExtract \/ ProcessWim \/ InitialiseInt13
         \/ ReadPe \/ load_pe \/ load_pe_fails \/ Describe \/ EnterBootmgr
  PROVE  PlacedInv'
<1> USE DEF PlacedInv
<1>1. UNCHANGED placeVars
  BY DEF ProcessCmdline, EnablePaging, enable_paging, CpioExtract, ProcessWim, InitialiseInt13,
         ReadPe,
         load_pe, load_pe_header, load_pe_section, load_pe_raw, loadUnchanged, load_pe_fails,
         Describe, EnterBootmgr, disable_paging, pagingVars,
         memoryVars, placeVars
<1>2. MemoryInv'
  BY <1>1, MemoryFrame
<1>3. memory_pc' = memory_pc /\ initrd_len' = initrd_len
  BY <1>1 DEF placeVars
<1>4. CASE ProcessCmdline \/ EnablePaging
  <2>1. /\ pc \in {"process_cmdline", "enable_paging"}
        /\ pc' \in {"process_cmdline", "init_paging", "dead", "relocate_low"}
        /\ UNCHANGED <<cpio_len, bootmgr, bootwim>>
    BY <1>4 DEF ProcessCmdline, EnablePaging, Goto, MainUnchanged, cpioVars
  <2> QED BY <1>2, <1>3, <2>1 DEF PhaseInv, PresentInv, Calling
<1>5. CASE CpioExtract
  <2>1. /\ pc = "extract" /\ pc' \in {"extract", "wim", "dead"}
        /\ UNCHANGED <<bootmgr, bootwim>>
    BY <1>5 DEF CpioExtract, Goto, MainUnchanged
  <2>2. cpio_len = 0 => cpio_len' = cpio_len
    BY <1>5 DEF CpioExtract, SkipPadding, EndOfArchive, BadOrTruncated, Trailer, Return
  <2> QED BY <1>2, <1>3, <2>1, <2>2 DEF PhaseInv, PresentInv, Calling
<1>6. CASE ProcessWim
  <2>1. /\ pc = "wim" /\ pc' = "int13" /\ UNCHANGED <<bootwim, cpio_len>>
        /\ bootwim = 0 => bootmgr' = bootmgr
    BY <1>6 DEF ProcessWim, Goto, cpioVars
  <2> QED BY <1>2, <1>3, <2>1 DEF PhaseInv, PresentInv, Calling
<1>7. CASE InitialiseInt13
  <2>1. /\ pc = "int13" /\ pc' = (IF bootmgr = 0 THEN "dead" ELSE "read_pe")
        /\ UNCHANGED <<bootmgr, bootwim, cpio_len>>
    BY <1>7 DEF InitialiseInt13, Goto, MainUnchanged, cpioVars
  <2> QED BY <1>2, <1>3, <2>1 DEF PhaseInv, PresentInv, Calling
<1>8. CASE ReadPe \/ load_pe \/ load_pe_fails
  <2>1. /\ pc \in {"read_pe", "load_pe", "load_sections"}
        /\ pc' \in {"load_pe", "load_sections", "relocate_high", "dead"}
        /\ UNCHANGED <<bootmgr, bootwim, cpio_len>>
    BY <1>8 DEF ReadPe,
                load_pe, load_pe_header, load_pe_section, load_pe_raw, loadUnchanged, load_pe_fails,
                Goto, MainUnchanged, cpioVars
  <2> QED BY <1>2, <1>3, <2>1 DEF PhaseInv, PresentInv, Calling
<1>9. CASE Describe \/ EnterBootmgr
  <2>1. /\ pc \in {"describe", "disable_paging"} /\ pc' \in {"disable_paging", "bootmgr"}
        /\ UNCHANGED <<bootmgr, bootwim, cpio_len>>
    BY <1>9 DEF Describe, EnterBootmgr, Goto, cpioVars
  <2> QED BY <1>2, <1>3, <2>1 DEF PhaseInv, PresentInv, Calling
<1> QED BY <1>4, <1>5, <1>6, <1>7, <1>8, <1>9

\* The steps after bootmgr.exe was entered.
LEMMA CallingStays ==
  ASSUME PlacedInv,
         \/ call_interrupt_wrapper \/ UseMemory \/ CountDrives \/ MakeCall \/ BootmgrReturns
  PROVE  PlacedInv' /\ UNCHANGED placeVars
<1> USE DEF PlacedInv
<1>1. CASE call_interrupt_wrapper
  <2>1. UNCHANGED placeVars
    BY <1>1 DEF call_interrupt_wrapper, WrapperInt13, EmulateInt13, CallReal, ReturnFromReal,
                WrapperReturns, enable_paging, disable_paging, pagingVars, memoryVars, placeVars
  <2>2. /\ pc \in Calling /\ pc' \in Calling
        /\ UNCHANGED <<bootmgr, bootwim, cpio_len>>
    BY <1>1, ZenonT(60) DEF call_interrupt_wrapper, WrapperInt13, EmulateInt13, CallReal, ReturnFromReal,
                WrapperReturns, Goto, MainUnchanged, cpioVars, Calling
  <2>3. MemoryInv'
    BY <2>1, MemoryFrame
  <2> QED BY <2>1, <2>2, <2>3 DEF PhaseInv, PresentInv, Calling, placeVars
<1>2. CASE UseMemory \/ CountDrives \/ MakeCall \/ BootmgrReturns
  <2>1. UNCHANGED placeVars
    BY <1>2, ZenonT(60) DEF UseMemory, CountDrives, MakeCall, Call, BootmgrReturns, memoryVars, placeVars
  <2>2. /\ pc \in Calling /\ pc' \in Calling \union {"dead"}
        /\ UNCHANGED <<bootmgr, bootwim, cpio_len>>
    BY <1>2 DEF UseMemory, CountDrives, MakeCall, Call, BootmgrReturns, Goto, MainUnchanged,
                mainVars, cpioVars, Calling
  <2>3. MemoryInv'
    BY <2>1, MemoryFrame
  <2> QED BY <2>1, <2>2, <2>3 DEF PhaseInv, PresentInv, Calling, placeVars
<1> QED BY <1>1, <1>2

\* The steps that set up the page directory, move the initrd or put a file in front of it.
LEMMA MovingStep ==
  ASSUME PlacedInv, InitPaging \/ RelocateLow \/ AddFile \/ RelocateHigh
  PROVE  PlacedInv'
<1> USE DEF PlacedInv
<1>1. CASE InitPaging
  <2>1. /\ pc = "init_paging" /\ pc' = "enable_paging"
        /\ paging' \in BOOLEAN /\ pd' = IF paging' THEN Identity ELSE pd
        /\ UNCHANGED <<e820, e820_ebx, region, initrd, initrd_len, dest, copied, initrd_phys,
                       memory_pc, bootmgr, bootwim, cpio_len>>
    BY <1>1 DEF InitPaging, init_paging, Goto, MainUnchanged, cpioVars
  <2>2. Identity \in [Pages -> Int]
    BY MemoryAssumption DEF Identity, Pages
  <2>3. memory_pc \in {"low", "low_try"}
    BY <2>1 DEF PhaseInv
  <2>4. PlaceTypes' /\ Trying'
    BY <2>1, <2>2 DEF MemoryInv, PlaceTypes, Trying
  <2>5. WalkInv'
    BY <2>1 DEF MemoryInv, WalkInv, NoFailure, IsRam
  <2>6. PageInv' /\ HighInv'
    BY <2>1, <2>3 DEF PageInv, OthersUnmoved, HighInv
  <2>7. PhaseInv' /\ PresentInv'
    BY <2>1, <2>3 DEF PhaseInv, PresentInv, Calling
  <2> QED BY <2>4, <2>5, <2>6, <2>7 DEF MemoryInv
<1>2. CASE RelocateLow
  <2>1. /\ pc = "relocate_low" /\ relocate_memory_low
        /\ pc' = (IF memory_pc' = "placed" THEN "extract" ELSE "relocate_low")
        /\ UNCHANGED <<bootmgr, bootwim, cpio_len>>
    BY <1>2 DEF RelocateLow, Goto, MainUnchanged, cpioVars
  <2>2. initrd_len' = initrd_len
    BY <2>1 DEF relocate_memory_low, NextLow, TryLow
  <2>3. MemoryInv' /\ memory_pc' \in {"low", "low_try", "placed"}
    BY <2>1, LowStep
  <2> QED BY <2>1, <2>2, <2>3 DEF PhaseInv, PresentInv, Calling
<1>3. CASE RelocateHigh
  <2>1. /\ pc = "relocate_high" /\ relocate_memory_high
        /\ pc' = (IF memory_pc' = "relocated" THEN "describe" ELSE "relocate_high")
        /\ UNCHANGED <<bootmgr, bootwim, cpio_len>>
    BY <1>3 DEF RelocateHigh, Goto, MainUnchanged, cpioVars
  <2>2. initrd_len' = initrd_len
    BY <2>1 DEF relocate_memory_high, StartHigh, NextHigh, TryHigh, CopyPage, Copied
  <2>3. initrd_len # 0
    BY <2>1 DEF PresentInv
  <2>4. MemoryInv' /\ memory_pc' \in {"high", "high_try", "copy", "relocated"}
    BY <2>1, <2>3, StartHighStep, NextHighStep, TryHighStep, CopyPageStep, CopiedStep
       DEF relocate_memory_high
  <2> QED BY <2>1, <2>2, <2>3, <2>4 DEF PhaseInv, PresentInv, Calling
<1>4. CASE AddFile
  <2>1. PICK name : add_file(name)
    BY <1>4 DEF AddFile
  <2>2. pc = "extract" /\ pc' = pc
    BY <1>4 DEF AddFile
  <2>3. memory_pc = "placed"
    BY <2>2 DEF PhaseInv
  <2>4. cpio_len # 0
    BY <2>1, CpioAssumption DEF add_file, ExtractMember, Whole
  <2>5. initrd_len # 0
    BY <2>4 DEF PresentInv
  <2>6. CASE UNCHANGED memoryVars
    <3>1. UNCHANGED placeVars
      BY <2>6 DEF memoryVars, placeVars
    <3>2. MemoryInv'
      BY <3>1, MemoryFrame
    <3> QED BY <2>2, <2>3, <2>5, <3>1, <3>2 DEF PhaseInv, PresentInv, Calling, placeVars
  <2>7. CASE add_bootmgr
    <3>1. /\ initrd' = initrd - padded_len(BootmgrLen)
          /\ initrd_len' = initrd_len + padded_len(BootmgrLen)
          /\ UNCHANGED <<e820, e820_ebx, region, pd, paging, dest, copied, initrd_phys,
                         memory_pc>>
      BY <2>7 DEF add_bootmgr
    <3>2. padded_len(BootmgrLen) \in Nat
      <4>1. PAGE_SIZE \in Nat \ {0} /\ BootmgrLen \in Nat
        BY MemoryAssumption, BootAssumption
      <4> DEFINE n == BootmgrLen + PAGE_SIZE - 1
                 q == n \div PAGE_SIZE
      <4>2. n \in Nat
        BY <4>1
      <4>3. q \in Int /\ n % PAGE_SIZE \in 0 .. PAGE_SIZE - 1
            /\ n = PAGE_SIZE * q + (n % PAGE_SIZE)
        BY <4>1, <4>2, DivMod
      <4>4. PAGE_SIZE * q \in Int
        BY <4>1, <4>3
      <4>5. CASE q < 0
        <5>1. PAGE_SIZE * q <= PAGE_SIZE * (-1)
          BY <4>1, <4>3, <4>5, TimesKeepsOrder
        <5> QED BY <4>1, <4>2, <4>3, <4>4, <5>1
      <4>6. CASE q >= 0
        BY <4>1, <4>3, <4>6 DEF padded_len, Down
      <4> QED BY <4>3, <4>5, <4>6
    <3>3. initrd' \in Int /\ initrd_len' \in Nat /\ initrd_len' # 0
      BY <2>5, <3>1, <3>2 DEF MemoryInv, PlaceTypes
    <3>4. PlaceTypes' /\ Trying'
      BY <3>1, <3>3 DEF MemoryInv, PlaceTypes, Trying
    <3>5. WalkInv'
      BY <3>1 DEF MemoryInv, WalkInv, NoFailure, IsRam
    <3>6. PageInv' /\ HighInv'
      BY <2>3, <3>1 DEF MemoryInv, PageInv, OthersUnmoved, HighInv
    <3>7. PhaseInv' /\ PresentInv'
      BY <2>2, <2>3, <3>1, <3>3 DEF PhaseInv, PresentInv, Calling
    <3> QED BY <3>4, <3>5, <3>6, <3>7 DEF MemoryInv
  <2> QED BY <2>1, <2>6, <2>7 DEF add_file
<1> QED BY <1>1, <1>2, <1>3, <1>4

LEMMA PlacedStep == PlacedInv /\ [BootNext]_vars => PlacedInv'
<1> SUFFICES ASSUME PlacedInv, [BootNext]_vars PROVE PlacedInv'
  OBVIOUS
<1>1. CASE BootNext
  BY <1>1, StayingStep, MovingStep, CallingStays DEF BootNext, main
<1>2. CASE UNCHANGED vars
  <2>1. UNCHANGED placeVars /\ UNCHANGED <<pc, bootmgr, bootwim, cpio_len>>
    BY <1>2 DEF vars, memoryVars, placeVars, mainVars, cpioVars
  <2>2. MemoryInv'
    BY <2>1, MemoryFrame DEF PlacedInv
  <2> QED BY <2>1, <2>2 DEF PlacedInv, PhaseInv, PresentInv, placeVars
<1> QED BY <1>1, <1>2

LEMMA PlacedAlways == BootSpec => []PlacedInv
BY PlacedInit, PlacedStep, PTL DEF BootSpec

\* relocate_memory_high leaves every page that is not the initrd's mapped to itself, the
\* copy window included, for every memory map, initrd and size of the pages.
THEOREM OnlyInitrdIsMapped == BootSpec => []OthersUnmoved
<1>1. PlacedInv => OthersUnmoved
  BY DEF PlacedInv, MemoryInv, PageInv
<1> QED BY <1>1, PlacedAlways, PTL

\* relocate_memory_high moves the initrd above 4GB exactly if a region of RAM that the
\* BIOS reports can hold it there, and to a place in such a region.
THEOREM InitrdIsHighIfPossible == BootSpec => []HighIfPossible
<1>1. PlacedInv => HighIfPossible
  BY DEF PlacedInv, MemoryInv, HighInv, HighIfPossible, HighPlaces
<1> QED BY <1>1, PlacedAlways, PTL

----------------------------------------------------------------------------
(* The choice of bootmgr.exe *)

VirtualFiles == [name : FileNames, from : {"initrd", "embedded", "wim"}, opaque : Int]

ChoiceTypes ==
  /\ files \in Seq(VirtualFiles) /\ extracted \in Seq(FileNames) /\ machine.len \in Nat
  /\ bootmgr \in 0 .. Len(files) /\ bootwim \in Nat
  /\ \A i \in 1 .. Len(archive.items) :
       IsMember(archive.items[i]) => archive.items[i].name \in FileNames \union {CPIO_TRAILER}

Searching == {"process_cmdline", "init_paging", "enable_paging", "relocate_low", "extract", "wim"}

\* What the files that were seen so far have given: a bootmgr.exe, or one in a bootmgr.
InArchive == Given("bootmgr.exe") # {} \/ (Given("bootmgr") # {} /\ machine.embedded)

ChoiceInv ==
  /\ ChoiceTypes
  /\ bootwim # 0 <=> Given("boot.wim") # {}
  /\ pc \in Searching => vdisk_drive = NoDrive /\ (bootmgr # 0 <=> InArchive)
  /\ pc = "int13" => (bootmgr = 0 <=> BootmgrSource = "none")
  /\ bootmgr # 0 => files[bootmgr].name = "bootmgr.exe" /\ files[bootmgr].from = BootmgrSource
  /\ pc \in {"read_pe", "load_pe", "load_sections", "relocate_high"} => bootmgr # 0
  /\ pc \in {"describe", "disable_paging"} \union Calling => bootmgr # 0
  /\ pc = "dead" /\ vdisk_drive # NoDrive /\ bootmgr = 0 => BootmgrSource = "none"

choiceVars == <<machine, files, bootmgr, bootwim, archive, extracted>>

\* A set of names that is finite can be listed.
LEMMA Listed ==
  ASSUME NEW S, IsFiniteSet(S), NEW T, S \subseteq T
  PROVE  SetToSeq(S) \in Seq(T)
<1>1. Cardinality(S) \in Nat /\ ExistsBijection(1 .. Cardinality(S), S)
  BY FS_CardinalityType
<1>2. PICK f : f \in Bijection(1 .. Cardinality(S), S)
  BY <1>1 DEF ExistsBijection
<1>3. f \in [1 .. Cardinality(S) -> S] /\ IsInjective(f)
  BY <1>2 DEF Bijection, Injection
<1>4. SetToSeq(S) \in [1 .. Cardinality(S) -> S]
  BY <1>3 DEF SetToSeq
<1>5. SetToSeq(S) \in [1 .. Cardinality(S) -> T]
  BY <1>4
<1> QED BY <1>1, <1>5

LEMMA FromWimListed ==
  ASSUME files \in Seq(VirtualFiles)
  PROVE  FromWim(files, WimFiles) \in Seq(VirtualFiles)
<1> DEFINE D == WimFiles \ Names(files)
           T == {File(n, "wim", 0) : n \in D}
           f == [n \in D |-> File(n, "wim", 0)]
<1>1. IsFiniteSet(D)
  BY BootAssumption, FS_Subset
<1>2. f \in Surjection(D, T)
  BY DEF Surjection
<1>3. IsFiniteSet(T)
  BY <1>1, <1>2, FS_Surjection
<1>4. T \subseteq VirtualFiles
  BY BootAssumption DEF VirtualFiles, File
<1> QED BY <1>3, <1>4, Listed DEF FromWim

\* A further name is given.
LEMMA GivenNext ==
  ASSUME extracted \in Seq(FileNames), NEW name \in FileNames,
         extracted' = Append(extracted, name), NEW n
  PROVE  Given(n)' # {} <=> Given(n) # {} \/ n = name
<1>1. /\ Len(extracted) \in Nat /\ Len(extracted') = Len(extracted) + 1
      /\ \A i \in 1 .. Len(extracted) : extracted'[i] = extracted[i]
      /\ extracted'[Len(extracted) + 1] = name
  BY AppendProperties
<1>2. ASSUME NEW i \in Given(n) PROVE Given(n)' # {}
  <2>1. i \in 1 .. Len(extracted) /\ extracted[i] = n
    BY DEF Given
  <2>2. i \in 1 .. Len(extracted') /\ extracted'[i] = n
    BY <1>1, <2>1
  <2> QED BY <2>2 DEF Given
<1>3. ASSUME n = name PROVE Given(n)' # {}
  <2>1. Len(extracted) + 1 \in 1 .. Len(extracted')
    BY <1>1
  <2> QED BY <1>1, <1>3, <2>1 DEF Given
<1>4. ASSUME NEW i \in Given(n)', n # name PROVE Given(n) # {}
  <2>1. i \in 1 .. Len(extracted') /\ extracted'[i] = n
    BY DEF Given
  <2>2. i \in 1 .. Len(extracted)
    BY <1>1, <1>4, <2>1
  <2> QED BY <1>1, <2>1, <2>2 DEF Given
<1> QED BY <1>2, <1>3, <1>4

\* What is chosen depends on the names given and the machine only.
LEMMA SameSource ==
  ASSUME UNCHANGED <<machine, extracted>>
  PROVE  /\ BootmgrSource' = BootmgrSource /\ (InArchive' <=> InArchive)
         /\ Given("boot.wim")' = Given("boot.wim")
<1>1. \A n : Given(n)' = Given(n)
  BY DEF Given
<1> QED BY <1>1 DEF BootmgrSource, InArchive, Given

LEMMA ChoiceInit == BootInit => ChoiceInv
<1> SUFFICES ASSUME BootInit PROVE ChoiceInv
  OBVIOUS
<1>1. /\ files = <<>> /\ extracted = <<>> /\ bootmgr = 0 /\ bootwim = 0
      /\ machine.len \in Nat /\ pc = "process_cmdline" /\ vdisk_drive = NoDrive
      /\ \A i \in 1 .. Len(archive.items) :
           IsMember(archive.items[i]) =>
             archive.items[i].name \in FileNames \union {CPIO_TRAILER}
  BY DEF BootInit, CpioInit
<1>2. \A n : Given(n) = {}
  BY <1>1 DEF Given
<1>3. ChoiceTypes
  BY <1>1 DEF ChoiceTypes
<1> QED BY <1>1, <1>2, <1>3 DEF ChoiceInv, InArchive, Searching, Calling

\* The steps that leave the files alone.
LEMMA ChoiceFrame ==
  ASSUME ChoiceInv, UNCHANGED choiceVars,
         \/ pc' = pc /\ vdisk_drive' = vdisk_drive
         \/ pc \in Searching /\ pc' \in Searching \union {"dead"} /\ vdisk_drive' = vdisk_drive
         \/ pc = "int13" /\ pc' = IF bootmgr = 0 THEN "dead" ELSE "read_pe"
         \/ pc \notin Searching \union {"int13", "dead"} /\ bootmgr # 0
            /\ pc' \notin Searching \union {"int13"}
  PROVE  ChoiceInv'
<1>1. UNCHANGED <<machine, files, bootmgr, bootwim, archive, extracted>>
  BY DEF choiceVars
<1>2. ChoiceTypes'
  BY <1>1 DEF ChoiceInv, ChoiceTypes, IsMember
<1>3. /\ BootmgrSource' = BootmgrSource /\ (InArchive' <=> InArchive)
      /\ Given("boot.wim")' = Given("boot.wim")
  BY <1>1, SameSource
<1> QED BY <1>1, <1>2, <1>3 DEF ChoiceInv, Searching, Calling

LEMMA AddFileChoice ==
  ASSUME ChoiceInv, PlacedInv, PlacedInv', AddFile
  PROVE  ChoiceInv'
<1>1. PICK member \in HeadersAt(cpio_data) : add_file(member.name)
  BY DEF AddFile
<1> DEFINE name == member.name
           opaque == ArchiveStart + BootmgrAt
           file == File(name, "initrd", opaque)
           exe == File("bootmgr.exe", "embedded", initrd')
           last == Len(files)
<1>2. /\ pc = "extract" /\ pc' = pc
      /\ UNCHANGED <<machine, archive, vdisk_drive>>
  BY <1>1 DEF AddFile, add_file, ExtractMember, int13Vars
<1>3. name # CPIO_TRAILER /\ extracted' = Append(extracted, name)
  BY <1>1 DEF add_file, ExtractMember
<1>4. name \in FileNames
  BY <1>3 DEF HeadersAt, ChoiceInv, ChoiceTypes
<1>5. opaque \in Int /\ initrd' \in Int
  BY BootAssumption DEF ArchiveStart, PlacedInv, MemoryInv, PlaceTypes, ChoiceInv, ChoiceTypes
<1>6. /\ HasEmbedded(name) => files' = files \o <<file, exe>>
      /\ ~HasEmbedded(name) => files' = Append(files, file)
      /\ bootmgr' = CASE name = "bootmgr.exe" -> last + 1
                      [] HasEmbedded(name)    -> last + 1 + 1
                      [] OTHER                -> bootmgr
      /\ bootwim' = IF name = "boot.wim" THEN last + 1 ELSE bootwim
  BY <1>1 DEF add_file
<1> HIDE DEF opaque
<1>7. file \in VirtualFiles /\ exe \in VirtualFiles
  BY <1>4, <1>5, BootAssumption DEF VirtualFiles, File
<1>8. /\ file.name = name /\ file.from = "initrd"
      /\ exe.name = "bootmgr.exe" /\ exe.from = "embedded"
  BY DEF File
<1> HIDE DEF file, exe, name
<1>9. last \in Nat /\ files \in Seq(VirtualFiles) /\ extracted \in Seq(FileNames)
  BY DEF ChoiceInv, ChoiceTypes
<1>10. /\ files' \in Seq(VirtualFiles) /\ Len(files') >= last + 1
       /\ \A i \in 1 .. last : files'[i] = files[i]
       /\ ~HasEmbedded(name) => files'[last + 1] = file
       /\ HasEmbedded(name) => files'[last + 1 + 1] = exe /\ Len(files') = last + 1 + 1
  <2>1. CASE HasEmbedded(name)
    <3> DEFINE two == <<file, exe>>
    <3>1. two \in Seq(VirtualFiles) /\ Len(two) = 2 /\ two[2] = exe
      BY <1>7
    <3>2. files' = files \o two
      BY <1>6, <2>1
    <3> HIDE DEF two
    <3>3. /\ files' \in Seq(VirtualFiles) /\ Len(files') = last + 2
          /\ \A i \in 1 .. last + 2 : files'[i] = IF i <= last THEN files[i] ELSE two[i - last]
      <4>1. /\ files \o two \in Seq(VirtualFiles) /\ Len(files \o two) = Len(files) + Len(two)
            /\ \A i \in 1 .. Len(files) + Len(two) :
                 (files \o two)[i] = IF i <= Len(files) THEN files[i] ELSE two[i - Len(files)]
        BY <1>9, <3>1, ConcatProperties
      <4> QED BY <3>1, <3>2, <4>1
    <3>4. files'[last + 1 + 1] = exe
      BY <1>9, <3>1, <3>3
    <3> QED BY <1>9, <2>1, <3>3, <3>4
  <2>2. CASE ~HasEmbedded(name)
    <3>1. /\ Append(files, file) \in Seq(VirtualFiles)
          /\ Len(Append(files, file)) = Len(files) + 1
          /\ \A i \in 1 .. Len(files) : Append(files, file)[i] = files[i]
          /\ Append(files, file)[Len(files) + 1] = file
      BY <1>7, <1>9, AppendProperties
    <3>2. files' = Append(files, file)
      BY <1>6, <2>2
    <3> QED BY <1>9, <2>2, <3>1, <3>2
  <2> QED BY <2>1, <2>2
<1>11. ChoiceTypes'
  <2>1. extracted' \in Seq(FileNames)
    BY <1>3, <1>4, <1>9, AppendProperties DEF name
  <2>2. bootmgr' \in 0 .. Len(files') /\ bootwim' \in Nat
    BY <1>6, <1>9, <1>10 DEF ChoiceInv, ChoiceTypes
  <2> QED BY <1>2, <1>10, <2>1, <2>2 DEF ChoiceInv, ChoiceTypes, IsMember
<1>12. \A n : Given(n)' # {} <=> Given(n) # {} \/ n = name
  BY <1>3, <1>4, <1>9, GivenNext DEF name
<1>13. Given("bootmgr.exe")' # {} <=> Given("bootmgr.exe") # {} \/ name = "bootmgr.exe"
  BY <1>12
<1>14. Given("bootmgr")' # {} <=> Given("bootmgr") # {} \/ name = "bootmgr"
  BY <1>12
<1>15. Given("boot.wim")' # {} <=> Given("boot.wim") # {} \/ name = "boot.wim"
  BY <1>12
<1>16. bootmgr # 0 <=> InArchive
  BY <1>2 DEF ChoiceInv, Searching
<1>17. bootmgr' # 0 <=> InArchive'
  BY <1>2, <1>6, <1>9, <1>13, <1>14, <1>16 DEF InArchive, HasEmbedded
<1>18. bootwim' # 0 <=> Given("boot.wim")' # {}
  BY <1>6, <1>9, <1>15 DEF ChoiceInv
<1>19. bootmgr' # 0 => /\ files'[bootmgr'].name = "bootmgr.exe"
                       /\ files'[bootmgr'].from = BootmgrSource'
  <2>1. CASE name = "bootmgr.exe"
    <3>1. bootmgr' = last + 1 /\ ~HasEmbedded(name)
      BY <1>6, <2>1 DEF HasEmbedded
    <3>2. BootmgrSource' = "initrd"
      BY <1>13, <2>1 DEF BootmgrSource
    <3> QED BY <1>8, <1>10, <2>1, <3>1, <3>2
  <2>2. CASE HasEmbedded(name)
    <3>1. bootmgr' = last + 1 + 1 /\ name = "bootmgr"
      BY <1>6, <2>2 DEF HasEmbedded
    <3>2. BootmgrSource' = "embedded"
      BY <1>2, <1>13, <1>14, <1>16, <2>2 DEF BootmgrSource, InArchive, HasEmbedded
    <3> QED BY <1>8, <1>10, <2>2, <3>1, <3>2
  <2>3. CASE name # "bootmgr.exe" /\ ~HasEmbedded(name) /\ bootmgr # 0
    <3>1. bootmgr' = bootmgr /\ bootmgr \in 1 .. last
      BY <1>6, <1>9, <2>3 DEF ChoiceInv, ChoiceTypes
    <3>2. BootmgrSource' = BootmgrSource
      BY <1>2, <1>13, <1>14, <1>16, <2>3 DEF BootmgrSource, InArchive
    <3> QED BY <1>10, <2>3, <3>1, <3>2 DEF ChoiceInv
  <2>4. CASE name # "bootmgr.exe" /\ ~HasEmbedded(name) /\ bootmgr = 0
    BY <1>6, <2>4
  <2> QED BY <2>1, <2>2, <2>3, <2>4
<1> QED BY <1>2, <1>11, <1>17, <1>18, <1>19 DEF ChoiceInv, Searching, Calling

LEMMA ProcessWimChoice ==
  ASSUME ChoiceInv, ProcessWim
  PROVE  ChoiceInv'
<1> DEFINE found == bootwim # 0 /\ bootmgr = 0 /\ machine.in_wim
           one == File("bootmgr.exe", "wim", 0)
           exe == IF found THEN <<one>> ELSE <<>>
           others == IF bootwim # 0 THEN FromWim(files, WimFiles) ELSE <<>>
           last == Len(files)
<1>1. /\ pc = "wim" /\ pc' = "int13" /\ files' = files \o exe \o others
      /\ bootmgr' = IF exe = <<>> THEN bootmgr ELSE last + 1
      /\ UNCHANGED <<machine, bootwim, archive, extracted>>
  BY DEF ProcessWim, Goto, cpioVars
<1>2. last \in Nat /\ files \in Seq(VirtualFiles)
  BY DEF ChoiceInv, ChoiceTypes
<1>3. others \in Seq(VirtualFiles)
  BY <1>2, FromWimListed
<1>4. one \in VirtualFiles /\ one.name = "bootmgr.exe" /\ one.from = "wim"
  BY BootAssumption DEF VirtualFiles, File
<1> HIDE DEF one, others
<1>5. /\ exe \in Seq(VirtualFiles)
      /\ found => exe # <<>> /\ Len(exe) = 1 /\ exe[1] = one
      /\ ~found => exe = <<>>
  BY <1>4
<1> HIDE DEF exe
<1> DEFINE both == files \o exe
<1>6. /\ both \in Seq(VirtualFiles) /\ Len(both) = last + Len(exe)
      /\ \A i \in 1 .. last + Len(exe) :
           both[i] = IF i <= last THEN files[i] ELSE exe[i - last]
  BY <1>2, <1>5, ConcatProperties
<1>7. files' = both \o others
  BY <1>1
<1> HIDE DEF both
<1>8. /\ files' \in Seq(VirtualFiles) /\ Len(files') = Len(both) + Len(others)
      /\ \A i \in 1 .. Len(both) + Len(others) :
           files'[i] = IF i <= Len(both) THEN both[i] ELSE others[i - Len(both)]
  <2>1. /\ both \o others \in Seq(VirtualFiles)
        /\ Len(both \o others) = Len(both) + Len(others)
        /\ \A i \in 1 .. Len(both) + Len(others) :
             (both \o others)[i] = IF i <= Len(both) THEN both[i] ELSE others[i - Len(both)]
    <3>1. both \in Seq(VirtualFiles)
      BY <1>6
    <3> QED BY <1>3, <3>1, ConcatProperties
  <2> QED BY <1>7, <2>1
<1>9. Len(exe) \in Nat /\ Len(others) \in Nat
  BY <1>3, <1>5
<1>10. ASSUME NEW i \in 1 .. last PROVE files'[i] = files[i]
  BY <1>2, <1>6, <1>8, <1>9
<1>11. ASSUME found PROVE files'[last + 1] = one /\ Len(files') >= last + 1
  BY <1>2, <1>5, <1>6, <1>8, <1>9, <1>11
<1>12. Len(files') >= last
  BY <1>2, <1>6, <1>8, <1>9
<1>13. /\ BootmgrSource' = BootmgrSource
       /\ Given("boot.wim")' = Given("boot.wim")
  BY <1>1, SameSource
<1>14. bootmgr # 0 <=> InArchive
  BY <1>1 DEF ChoiceInv, Searching
<1>15. bootwim # 0 <=> Given("boot.wim") # {}
  BY DEF ChoiceInv
<1>16. bootmgr \in 0 .. last
  BY DEF ChoiceInv, ChoiceTypes
<1>17. CASE found
  <2>1. bootmgr' = last + 1
    BY <1>1, <1>5, <1>17
  <2>2. BootmgrSource = "wim"
    BY <1>14, <1>15, <1>17 DEF BootmgrSource, InArchive
  <2>3. ChoiceTypes'
    BY <1>1, <1>2, <1>8, <1>11, <1>17, <2>1 DEF ChoiceInv, ChoiceTypes, IsMember
  <2>4. bootmgr' # 0 /\ files'[bootmgr'] = one
    BY <1>2, <1>11, <1>17, <2>1
  <2> QED BY <1>1, <1>4, <1>13, <1>15, <2>2, <2>3, <2>4 DEF ChoiceInv, Searching, Calling
<1>18. CASE ~found
  <2>1. bootmgr' = bootmgr
    BY <1>1, <1>5, <1>18
  <2>2. bootmgr = 0 <=> BootmgrSource = "none"
    BY <1>14, <1>15, <1>18 DEF BootmgrSource, InArchive
  <2>3. ChoiceTypes'
    BY <1>1, <1>2, <1>8, <1>12, <1>16, <2>1 DEF ChoiceInv, ChoiceTypes, IsMember
  <2>4. bootmgr # 0 => files'[bootmgr'] = files[bootmgr]
    BY <1>2, <1>10, <1>16, <2>1
  <2> QED BY <1>1, <1>13, <1>15, <2>1, <2>2, <2>3, <2>4 DEF ChoiceInv, Searching, Calling
<1> QED BY <1>17, <1>18

LEMMA ChoiceStep == ChoiceInv /\ PlacedInv /\ PlacedInv' /\ [BootNext]_vars => ChoiceInv'
<1> SUFFICES ASSUME ChoiceInv, PlacedInv, PlacedInv', [BootNext]_vars PROVE ChoiceInv'
  OBVIOUS
<1>1. CASE ProcessCmdline \/ InitPaging \/ EnablePaging \/ RelocateLow
  <2>1. /\ UNCHANGED choiceVars /\ UNCHANGED vdisk_drive
        /\ pc \in Searching /\ pc' \in Searching \union {"dead"}
    BY <1>1 DEF ProcessCmdline, InitPaging, EnablePaging, RelocateLow, Goto, MainUnchanged,
                cpioVars, int13Vars, choiceVars, Searching
  <2> QED BY <2>1, ChoiceFrame
<1>2. CASE AddFile
  BY <1>2, AddFileChoice
<1>3. CASE CpioExtract
  <2>1. UNCHANGED <<archive, extracted>>
    BY <1>3 DEF CpioExtract, SkipPadding, EndOfArchive, BadOrTruncated, Trailer, Return
  <2>2. /\ UNCHANGED choiceVars /\ UNCHANGED vdisk_drive
        /\ pc \in Searching /\ pc' \in Searching \union {"dead"}
    BY <1>3, <2>1 DEF CpioExtract, Goto, MainUnchanged, int13Vars, choiceVars, Searching
  <2> QED BY <2>2, ChoiceFrame
<1>4. CASE ProcessWim
  BY <1>4, ProcessWimChoice
<1>5. CASE InitialiseInt13
  <2>1. /\ UNCHANGED choiceVars
        /\ pc = "int13" /\ pc' = IF bootmgr = 0 THEN "dead" ELSE "read_pe"
    BY <1>5 DEF InitialiseInt13, Goto, MainUnchanged, cpioVars, choiceVars
  <2> QED BY <2>1, ChoiceFrame
<1>6. CASE ReadPe \/ load_pe \/ load_pe_fails \/ RelocateHigh \/ Describe \/ EnterBootmgr
  <2>1. /\ UNCHANGED choiceVars
        /\ pc \in {"read_pe", "load_pe", "load_sections", "relocate_high", "describe",
                  "disable_paging"}
        /\ pc' \in {"load_pe", "load_sections", "relocate_high", "describe", "disable_paging",
                   "bootmgr", "dead"}
    BY <1>6 DEF ReadPe,
                load_pe, load_pe_header, load_pe_section, load_pe_raw, loadUnchanged, load_pe_fails,
                RelocateHigh, Describe, EnterBootmgr, Goto,
                MainUnchanged, cpioVars, choiceVars
  <2>2. /\ pc \notin Searching \union {"int13", "dead"} /\ bootmgr # 0
        /\ pc' \notin Searching \union {"int13"}
    BY <2>1 DEF ChoiceInv, Searching
  <2> QED BY <2>1, <2>2, ChoiceFrame
<1>7. CASE call_interrupt_wrapper
  <2>1. UNCHANGED choiceVars /\ pc \in Calling /\ pc' \in Calling
    BY <1>7, ZenonT(60) DEF call_interrupt_wrapper, WrapperInt13, EmulateInt13, CallReal, ReturnFromReal,
                WrapperReturns, Goto, MainUnchanged, cpioVars, choiceVars, Calling
  <2>2. /\ pc \notin Searching \union {"int13", "dead"} /\ bootmgr # 0
        /\ pc' \notin Searching \union {"int13"}
    BY <2>1 DEF ChoiceInv, Searching, Calling
  <2> QED BY <2>1, <2>2, ChoiceFrame
<1>8. CASE UseMemory \/ CountDrives \/ MakeCall \/ BootmgrReturns
  <2>1. UNCHANGED choiceVars /\ pc \in Calling /\ pc' \in Calling \union {"dead"}
    BY <1>8 DEF UseMemory, CountDrives, MakeCall, Call, BootmgrReturns, Goto, MainUnchanged,
                mainVars, cpioVars, choiceVars, Calling
  <2>2. /\ pc \notin Searching \union {"int13", "dead"} /\ bootmgr # 0
        /\ pc' \notin Searching \union {"int13"}
    BY <2>1 DEF ChoiceInv, Searching, Calling
  <2> QED BY <2>1, <2>2, ChoiceFrame
<1>9. CASE UNCHANGED vars
  <2>1. UNCHANGED choiceVars /\ UNCHANGED <<pc, vdisk_drive>>
    BY <1>9 DEF vars, mainVars, cpioVars, int13Vars, choiceVars
  <2> QED BY <2>1, ChoiceFrame
<1> QED BY <1>1, <1>2, <1>3, <1>4, <1>5, <1>6, <1>7, <1>8, <1>9 DEF BootNext, main

LEMMA ChoiceAlways == BootSpec => []ChoiceInv
BY ChoiceInit, ChoiceStep, PlacedAlways, PTL DEF BootSpec

\* Whatever files an archive has and in whichever order, add_file and the WIM leave main
\* with the bootmgr.exe that has precedence, and main gives up only if there is none.
THEOREM BootmgrIsChosen == BootSpec => []BootmgrChosen
<1>1. ChoiceInv => BootmgrChosen
  BY DEF ChoiceInv, BootmgrChosen
<1> QED BY <1>1, ChoiceAlways, PTL

----------------------------------------------------------------------------
(* The contents of memory *)

MemoryCells == 0 .. MemorySize - 1

\* A bootmgr.exe that was put in front of the archive has these cells, with its padding.
Prepended == initrd_len - machine.len

\* What the cell at offset j of the initrd has to be; the padding may be anything.
GoodCell(j, cell) ==
  /\ j >= Prepended => cell = <<"initrd", j - Prepended + 1>>
  /\ j < Prepended /\ j < BootmgrLen => cell = <<"bootmgr", j + 1>>

HoldsInitrd(mem, at) == \A j \in 0 .. initrd_len - 1 : GoodCell(j, mem[at + j])
HoldsFile(mem) == \A k \in 1 .. BootmgrLen : mem[raw_pe + k - 1] = BootmgrFile[k]

SpaceInv ==
  /\ DOMAIN ram = MemoryCells
  /\ machine.len \in Nat /\ machine.image \in Images /\ raw_pe \in Int
  /\ initrd + initrd_len \in 0 .. ADDR_4GB
  /\ initrd_len > 0 => initrd + initrd_len > 0
  /\ \/ initrd_len = machine.len
     \/ initrd_len = machine.len + padded_len(BootmgrLen) /\ bootmgr # 0
  /\ \A i \in 1 .. Len(archive.items) :
       IsMember(archive.items[i]) /\ archive.items[i].name = "bootmgr.exe" =>
         BootmgrAt + BootmgrLen <= machine.len

\* wimboot's own page tables are used only if paging is available, and then by every read
\* of the emulated drive.
CpuInv ==
  /\ ~paging \/ pc \in {"process_cmdline", "init_paging", "enable_paging"} => cpu.cr3 = "other"
  /\ paging /\ pc = "emulate_int13" => cpu.pg /\ cpu.cr3 = "pdpt"

\* Where the chosen bootmgr.exe is.
FileInv ==
  bootmgr # 0 =>
    /\ files[bootmgr].from = "initrd" =>
         /\ BootmgrAt + BootmgrLen <= machine.len
         /\ files[bootmgr].opaque = ArchiveStart + BootmgrAt
    /\ files[bootmgr].from = "embedded" =>
         /\ initrd_len = machine.len + padded_len(BootmgrLen)
         /\ files[bootmgr].opaque = initrd

\* The addresses that main does not want to lose: the initrd, and what was put in front.
Lowest == IF raw_pe < initrd THEN raw_pe ELSE initrd
InTaken(a) == Lowest <= a /\ a < initrd + initrd_len

FreeRoom(offset, n) ==
  /\ Image.base + offset + n <= ADDR_4GB
  /\ \A a \in Cells(Image.base + offset, n) : ~InTaken(a)

\* The headers and the sections of the image are apart from these addresses.
SectionsFit ==
  /\ Lowest >= 0
  /\ FreeRoom(0, Image.header_len)
  /\ \A i \in 1 .. Len(Image.sections) :
       LET s == Image.sections[i]
       IN  /\ FreeRoom(s.virtual, s.virtual_len) /\ FreeRoom(s.virtual, s.raw_len)
           /\ s.raw + Minimum(s.raw_len, s.virtual_len) <= BootmgrLen
           /\ \A j \in 1 .. i - 1 :
                Image.sections[j].virtual + Image.sections[j].virtual_len <= s.virtual

SectionLoaded(mem, i) ==
  LET s == Image.sections[i]
  IN  \A k \in 1 .. s.virtual_len :
        mem[Image.base + s.virtual + k - 1]
          = IF k <= s.raw_len THEN BootmgrFile[s.raw + k] ELSE Zero

RawInTaken == raw_pe + BootmgrLen <= initrd + initrd_len

LoadInv ==
  /\ pc \in Searching \union {"int13", "read_pe"} /\ initrd >= 0 => HoldsInitrd(ram, initrd)
  /\ pc = "load_pe" =>
       /\ RawInTaken
       /\ Lowest >= 0 => HoldsInitrd(ram, initrd) /\ HoldsFile(ram)
  /\ pc = "load_sections" =>
       /\ RawInTaken
       /\ pe.base = Image.base /\ pe.len \in Nat /\ pe.loaded \in 0 .. Len(Image.sections)
       /\ Image.header_len <= pe.len
       /\ \A i \in 1 .. pe.loaded :
            Image.sections[i].virtual + Image.sections[i].virtual_len <= pe.len
       /\ SectionsFit =>
            /\ HoldsInitrd(ram, initrd) /\ HoldsFile(ram)
            /\ \A i \in 1 .. pe.loaded : SectionLoaded(ram, i)

Relocating == pc = "relocate_high"
Relocated == pc \in {"describe", "disable_paging"} \union Calling
Good == Apart /\ WellFormedImage

ImageLoaded(mem) ==
  /\ \A k \in 1 .. BootmgrLen : mem[pe.base + RoomForSections + k - 1] = BootmgrFile[k]
  /\ \A i \in 1 .. Len(Image.sections) : SectionLoaded(mem, i)

ImageInv ==
  Relocating \/ Relocated =>
    /\ pe.base = Image.base /\ pe.len \in Nat /\ RoomForSections \in Nat
    /\ \A i \in 1 .. Len(Image.sections) :
         Image.sections[i].virtual + Image.sections[i].virtual_len <= RoomForSections
    /\ Good => ImageLoaded(ram)

\* While the initrd is copied, the part that was copied is found at its new place, by
\* its address and by its physical address, and the rest at the old one.
CopyAt(j) == IF j < copied THEN dest + j ELSE initrd + j
CopyCell(j) == GoodCell(j, ram[CopyAt(j)]) /\ Translate(pd, initrd + j) = CopyAt(j)
CopyInv ==
  /\ copied <= initrd_len
  /\ copied < initrd_len => copied = 0 \/ (initrd + copied) % PAGE_SIZE_2MB = 0
  /\ \A j \in 0 .. initrd_len - 1 : CopyCell(j)

InitrdInv ==
  /\ Relocating /\ memory_pc # "copy" /\ Good => HoldsInitrd(ram, initrd)
  /\ Relocating /\ memory_pc = "copy" /\ Good => CopyInv
  /\ Relocated /\ Good =>
       /\ HoldsInitrd(ram, initrd_phys)
       /\ paging => \A j \in 0 .. initrd_len - 1 : Translate(pd, initrd + j) = initrd_phys + j

RegionsInv ==
  pc \in {"disable_paging"} \union Calling =>
    regions = {WIMBOOT_REGION, PE_REGION}
              \union (IF initrd_phys >= ADDR_4GB THEN {} ELSE {INITRD_REGION})

LEMMA CellCount ==
  ASSUME NEW n \in Nat, NEW S, NEW f \in [1 .. n -> S]
  PROVE  f \in Seq(S) /\ Len(f) = n
OBVIOUS

LEMMA Addresses ==
  /\ PAGE_SIZE \in Nat \ {0} /\ PAGE_SIZE_2MB \in Nat \ {0}
  /\ ADDR_1MB \in Nat /\ ADDR_2GB \in Nat /\ ADDR_4GB \in Nat /\ MemorySize \in Nat
  /\ ADDR_2GB < ADDR_4GB /\ ADDR_4GB < MemorySize
  /\ BootmgrLen \in Nat \ {0} /\ BootmgrAt \in Nat /\ WimbootLen \in Nat \ {0}
BY MemoryAssumption, BootAssumption

\* An address below 4GB is in a page, which Identity maps to itself.
LEMMA PageOf ==
  ASSUME NEW v \in 0 .. ADDR_4GB - 1
  PROVE  v \div PAGE_SIZE_2MB \in Pages
<1> DEFINE P == PAGE_SIZE_2MB
           q == v \div P
           top == ADDR_4GB \div P
<1>1. P \in Nat \ {0} /\ ADDR_4GB \in Nat /\ ADDR_4GB % P = 0
  BY MemoryAssumption
<1>2. /\ q \in Int /\ v % P \in 0 .. P - 1 /\ v = P * q + (v % P)
      /\ top \in Int /\ ADDR_4GB = P * top + (ADDR_4GB % P)
  BY <1>1, DivMod
<1> HIDE DEF P, q, top
<1>3. P * q < P * top
  BY <1>1, <1>2
<1>4. q < top
  <2>1. CASE top <= q
    BY <1>1, <1>2, <1>3, <2>1, TimesKeepsOrder
  <2> QED BY <1>2, <2>1
<1>5. q >= 0
  <2>1. CASE q <= -1
    <3>1. P * q <= P * (-1)
      BY <1>1, <1>2, <2>1, TimesKeepsOrder
    <3> QED BY <1>1, <1>2, <3>1
  <2> QED BY <1>2, <2>1
<1>6. q \in 0 .. top - 1
  BY <1>2, <1>4, <1>5
<1> QED BY <1>6 DEF Pages, q, top, P

LEMMA IdentityAt ==
  ASSUME NEW v \in 0 .. ADDR_4GB - 1
  PROVE  Translate(Identity, v) = v
<1>1. v \div PAGE_SIZE_2MB \in Pages
  BY PageOf
<1>2. Identity[v \div PAGE_SIZE_2MB] = (v \div PAGE_SIZE_2MB) * PAGE_SIZE_2MB
  BY <1>1 DEF Identity
<1>3. PAGE_SIZE_2MB \in Nat \ {0} /\ v \in Int
  BY Addresses
<1>4. v = PAGE_SIZE_2MB * (v \div PAGE_SIZE_2MB) + (v % PAGE_SIZE_2MB)
  BY <1>3, DivMod
<1>5. v \div PAGE_SIZE_2MB \in Int
  BY <1>3, DivMod
<1>6. (v \div PAGE_SIZE_2MB) * PAGE_SIZE_2MB = PAGE_SIZE_2MB * (v \div PAGE_SIZE_2MB)
  BY <1>3, <1>5
<1> QED BY <1>2, <1>4, <1>6 DEF Translate

\* The n addresses from v on are the physical ones from w on.
Mapped(dir, v, w, n) == \A k \in 1 .. n : Translate(dir, v + k - 1) = w + k - 1

\* Memory before and after n cells were written at w.
Written(new, mem, w, n, cells) ==
  /\ DOMAIN new = MemoryCells
  /\ \A a \in MemoryCells :
       new[a] = IF w <= a /\ a < w + n THEN cells[a - w + 1] ELSE mem[a]

LEMMA StoreAt ==
  ASSUME NEW mem, NEW dir, NEW v \in Int, NEW w \in Int, NEW n \in Nat, NEW cells,
         Len(cells) = n, DOMAIN mem = MemoryCells, Mapped(dir, v, w, n)
  PROVE  Written(Store(mem, dir, v, cells), mem, w, n, cells)
<1>1. DOMAIN Store(mem, dir, v, cells) = MemoryCells
  BY DEF Store
<1>2. ASSUME NEW a \in MemoryCells
      PROVE  Store(mem, dir, v, cells)[a]
               = IF w <= a /\ a < w + n THEN cells[a - w + 1] ELSE mem[a]
  <2> DEFINE at == {k \in 1 .. Len(cells) : Translate(dir, v + k - 1) = a}
  <2>1. Store(mem, dir, v, cells)[a] = IF at = {} THEN mem[a] ELSE cells[Max(at)]
    BY DEF Store
  <2>2. a \in Int
    BY Addresses DEF MemoryCells
  <2>3. at = {k \in 1 .. n : w + k - 1 = a}
    BY DEF Mapped
  <2>4. CASE w <= a /\ a < w + n
    <3>1. at = {a - w + 1}
      BY <2>2, <2>3, <2>4
    <3>2. a - w + 1 \in Nat
      BY <2>2, <2>4
    <3>3. Max({a - w + 1}) = a - w + 1
      BY <3>2, MaxIs
    <3> QED BY <2>1, <2>4, <3>1, <3>3
  <2>5. CASE ~(w <= a /\ a < w + n)
    <3>1. at = {}
      BY <2>2, <2>3, <2>5
    <3> QED BY <2>1, <2>5, <3>1
  <2> QED BY <2>4, <2>5
<1> QED BY <1>1, <1>2 DEF Written

LEMMA LoadAt ==
  ASSUME NEW mem, NEW dir, NEW v \in Int, NEW n \in Nat
  PROVE  /\ DOMAIN Load(mem, dir, v, n) = 1 .. n /\ Len(Load(mem, dir, v, n)) = n
         /\ \A k \in 1 .. n : Load(mem, dir, v, n)[k] = mem[Translate(dir, v + k - 1)]
<1> DEFINE f == Load(mem, dir, v, n)
           S == {mem[Translate(dir, v + k - 1)] : k \in 1 .. n}
<1>1. f = [k \in 1 .. n |-> mem[Translate(dir, v + k - 1)]]
  BY DEF Load
<1>2. f \in [1 .. n -> S]
  BY <1>1
<1>3. Len(f) = n
  BY <1>2, CellCount
<1> QED BY <1>1, <1>3

LEMMA IdentityMapped ==
  ASSUME NEW v \in Nat, NEW n \in Nat, v + n <= ADDR_4GB
  PROVE  Mapped(Identity, v, v, n)
<1>1. ASSUME NEW k \in 1 .. n PROVE Translate(Identity, v + k - 1) = v + k - 1
  <2>1. v + k - 1 \in 0 .. ADDR_4GB - 1
    BY Addresses
  <2> QED BY <2>1, IdentityAt
<1> QED BY <1>1 DEF Mapped

\* A store to addresses below 4GB that are mapped to themselves.
LEMMA StoreLow ==
  ASSUME NEW mem, NEW v \in Nat, NEW n \in Nat, NEW cells, Len(cells) = n,
         DOMAIN mem = MemoryCells, v + n <= ADDR_4GB
  PROVE  Written(Store(mem, Identity, v, cells), mem, v, n, cells)
<1>1. Mapped(Identity, v, v, n) /\ v \in Int
  BY IdentityMapped
<1> QED BY <1>1, StoreAt

\* Memory after memcpy from an offset of the file, which may reach beyond it.
CopiedTo(new, mem, to, offset, len) ==
  /\ DOMAIN new = MemoryCells
  /\ \A a \in MemoryCells : ~(to <= a /\ a < to + len) => new[a] = mem[a]
  /\ \A k \in 1 .. len : raw_pe + offset + k <= ADDR_4GB =>
       new[to + k - 1] = mem[raw_pe + offset + k - 1]

LEMMA CopyLow ==
  ASSUME NEW mem, DOMAIN mem = MemoryCells, Tables = Identity, raw_pe \in Nat,
         NEW to \in Nat, NEW offset \in Nat, NEW len \in Nat, to + len <= ADDR_4GB
  PROVE  CopiedTo(CopyFrom(mem, to, offset, len), mem, to, offset, len)
<1> DEFINE src == raw_pe + offset
           cells == Load(mem, Identity, src, len)
           new == CopyFrom(mem, to, offset, len)
<1>1. new = Store(mem, Identity, to, cells)
  BY DEF CopyFrom
<1>2. /\ src \in Int /\ DOMAIN cells = 1 .. len /\ Len(cells) = len
      /\ \A k \in 1 .. len : cells[k] = mem[Translate(Identity, src + k - 1)]
  <2>1. src \in Int
    OBVIOUS
  <2> HIDE DEF src
  <2> QED BY <2>1, LoadAt
<1> HIDE DEF cells
<1>3. Written(new, mem, to, len, cells)
  BY <1>1, <1>2, StoreLow
<1> HIDE DEF new
<1>4. ASSUME NEW k \in 1 .. len, raw_pe + offset + k <= ADDR_4GB
      PROVE  new[to + k - 1] = mem[raw_pe + offset + k - 1]
  <2>1. /\ to + k - 1 \in MemoryCells /\ to <= to + k - 1 /\ to + k - 1 < to + len
        /\ (to + k - 1) - to + 1 = k
    BY Addresses DEF MemoryCells
  <2>2. new[to + k - 1] = cells[k]
    BY <1>3, <2>1 DEF Written
  <2>3. src + k - 1 \in 0 .. ADDR_4GB - 1
    BY <1>4, Addresses
  <2>4. Translate(Identity, src + k - 1) = src + k - 1
    BY <2>3, IdentityAt
  <2> QED BY <1>2, <2>2, <2>4
<1>5. DOMAIN new = MemoryCells /\ \A a \in MemoryCells : ~(to <= a /\ a < to + len) => new[a] = mem[a]
  BY <1>3 DEF Written
<1> QED BY <1>4, <1>5 DEF CopiedTo, new

----------------------------------------------------------------------------
(* The steps that leave memory alone *)

Unread == Searching \union {"int13", "read_pe"}
Entered == {"disable_paging"} \union Calling

coreVars == <<ram, machine, archive, files, bootmgr, pe, raw_pe, initrd, initrd_len, paging>>
highVars == <<pd, dest, copied, initrd_phys, memory_pc>>

\* What memory has to hold; nothing here depends on the control registers or on a call.
StoreInv == SpaceInv /\ FileInv /\ LoadInv /\ ImageInv /\ InitrdInv /\ RegionsInv

LEMMA CoreSame ==
  ASSUME UNCHANGED coreVars
  PROVE  /\ SpaceInv' <=> SpaceInv
         /\ FileInv' <=> FileInv
         /\ HoldsInitrd(ram, initrd)' <=> HoldsInitrd(ram, initrd)
         /\ HoldsFile(ram)' <=> HoldsFile(ram)
         /\ SectionsFit' <=> SectionsFit
         /\ Lowest' = Lowest
         /\ \A i : SectionLoaded(ram, i)' <=> SectionLoaded(ram, i)
         /\ ImageLoaded(ram)' <=> ImageLoaded(ram)
         /\ RawInTaken' <=> RawInTaken
         /\ Good' <=> Good
         /\ Image' = Image /\ RoomForSections' = RoomForSections
<1>1. UNCHANGED <<ram, machine, archive, files, bootmgr, pe, raw_pe, initrd, initrd_len, paging>>
  BY DEF coreVars
<1>2. Image' = Image /\ RoomForSections' = RoomForSections /\ Lowest' = Lowest
      /\ BootmgrFile' = BootmgrFile
  BY <1>1 DEF Image, RoomForSections, Lowest, BootmgrFile
<1>3. SpaceInv' <=> SpaceInv
  BY <1>1 DEF SpaceInv, IsMember
<1>4. FileInv' <=> FileInv
  BY <1>1 DEF FileInv, ArchiveStart
<1>5. (HoldsInitrd(ram, initrd)' <=> HoldsInitrd(ram, initrd)) /\ (RawInTaken' <=> RawInTaken)
  BY <1>1 DEF HoldsInitrd, GoodCell, Prepended, RawInTaken
<1>6. (HoldsFile(ram)' <=> HoldsFile(ram))
  BY <1>1, <1>2 DEF HoldsFile
<1>7. \A i : SectionLoaded(ram, i)' <=> SectionLoaded(ram, i)
  BY <1>1, <1>2 DEF SectionLoaded
<1>8. \A o, n : FreeRoom(o, n)' <=> FreeRoom(o, n)
  BY <1>1, <1>2 DEF FreeRoom, InTaken, Cells
<1>9. SectionsFit' <=> SectionsFit
  BY <1>1, <1>2, <1>8 DEF SectionsFit, Minimum, FreeRoom, InTaken, Cells
<1>10. ImageLoaded(ram)' <=> ImageLoaded(ram)
  BY <1>1, <1>2, <1>7 DEF ImageLoaded, SectionLoaded
<1>11. Good' <=> Good
  BY <1>1, <1>2 DEF Good, Apart, WellFormedImage, Minimum, Cells
<1> QED BY <1>2, <1>3, <1>4, <1>5, <1>6, <1>7, <1>9, <1>10, <1>11

LEMMA StoreFrame ==
  ASSUME StoreInv, UNCHANGED coreVars,
         pc' \in Unread => pc \in Unread,
         pc' \in {"load_pe", "load_sections"} => pc' = pc,
         Relocating' => Relocating /\ UNCHANGED highVars,
         Relocated' => Relocated /\ UNCHANGED highVars,
         pc' \in Entered => pc \in Entered /\ regions' = regions
  PROVE  StoreInv'
<1> USE DEF StoreInv
<1>1. UNCHANGED <<ram, machine, archive, files, bootmgr, pe, raw_pe, initrd, initrd_len, paging>>
  BY DEF coreVars
<1>2. SpaceInv' /\ FileInv'
  BY CoreSame
<1>3. LoadInv'
  <2>1. ASSUME pc' \in Unread, initrd' >= 0 PROVE HoldsInitrd(ram, initrd)'
    BY <1>1, <2>1, CoreSame DEF LoadInv, Unread
  <2>2. ASSUME pc' = "load_pe" PROVE RawInTaken' /\ (Lowest' >= 0 => HoldsInitrd(ram, initrd)' /\ HoldsFile(ram)')
    BY <2>2, CoreSame DEF LoadInv
  <2>3. ASSUME pc' = "load_sections"
        PROVE  /\ RawInTaken'
               /\ pe'.base = Image'.base /\ pe'.len \in Nat /\ pe'.loaded \in 0 .. Len(Image'.sections)
               /\ Image'.header_len <= pe'.len
               /\ \A i \in 1 .. pe'.loaded :
                    Image'.sections[i].virtual + Image'.sections[i].virtual_len <= pe'.len
               /\ SectionsFit' =>
                    /\ HoldsInitrd(ram, initrd)' /\ HoldsFile(ram)'
                    /\ \A i \in 1 .. pe'.loaded : SectionLoaded(ram, i)'
    <3>1. pc = "load_sections"
      BY <2>3
    <3> QED BY <1>1, <3>1, CoreSame DEF LoadInv
  <2> QED BY <2>1, <2>2, <2>3 DEF LoadInv, Unread
<1>4. ImageInv'
  <2> SUFFICES ASSUME (Relocating \/ Relocated)' PROVE ImageInv'
    BY DEF ImageInv
  <2>1. Relocating \/ Relocated
    OBVIOUS
  <2>2. /\ pe.base = Image.base /\ pe.len \in Nat /\ RoomForSections \in Nat
        /\ \A i \in 1 .. Len(Image.sections) :
             Image.sections[i].virtual + Image.sections[i].virtual_len <= RoomForSections
        /\ Good => ImageLoaded(ram)
    BY <2>1 DEF ImageInv
  <2>3. /\ (Good' <=> Good) /\ (ImageLoaded(ram)' <=> ImageLoaded(ram))
        /\ Image' = Image /\ RoomForSections' = RoomForSections
    BY CoreSame
  <2> QED BY <1>1, <2>2, <2>3 DEF ImageInv
<1>5. InitrdInv'
  <2>1. (Good' <=> Good) /\ (HoldsInitrd(ram, initrd)' <=> HoldsInitrd(ram, initrd))
    BY CoreSame
  <2>2. CASE Relocating'
    <3>1. Relocating /\ UNCHANGED <<pd, dest, copied, initrd_phys, memory_pc>> /\ ~Relocated'
      BY <2>2 DEF highVars, Relocating, Relocated, Calling
    <3>2. CopyInv' <=> CopyInv
      BY <1>1, <3>1 DEF CopyInv, CopyCell, CopyAt, GoodCell, Prepended, Translate
    <3> QED BY <2>1, <3>1, <3>2 DEF InitrdInv
  <2>3. CASE Relocated'
    <3>1. Relocated /\ UNCHANGED <<pd, dest, copied, initrd_phys, memory_pc>> /\ ~Relocating'
      BY <2>3 DEF highVars, Relocating, Relocated, Calling
    <3>2. HoldsInitrd(ram, initrd_phys)' <=> HoldsInitrd(ram, initrd_phys)
      BY <1>1, <3>1 DEF HoldsInitrd, GoodCell, Prepended
    <3>3. ASSUME Good', paging'
          PROVE  \A j \in 0 .. initrd_len' - 1 : Translate(pd', initrd' + j) = initrd_phys' + j
      BY <1>1, <2>1, <3>1, <3>3 DEF InitrdInv
    <3>4. Good' => HoldsInitrd(ram, initrd_phys)'
      BY <2>1, <3>1, <3>2 DEF InitrdInv
    <3> QED BY <3>1, <3>3, <3>4 DEF InitrdInv, Translate
  <2> QED BY <2>2, <2>3 DEF InitrdInv
<1>6. RegionsInv'
  <2> SUFFICES ASSUME pc' \in Entered PROVE RegionsInv'
    BY DEF RegionsInv, Entered
  <2>1. pc \in Entered /\ regions' = regions /\ UNCHANGED <<initrd_phys>>
    BY DEF highVars, Relocated, Entered
  <2> QED BY <1>1, <2>1 DEF RegionsInv, Entered, PE_REGION, INITRD_REGION, Described, page_start, page_len, page_end, WIMBOOT_REGION
<1> QED BY <1>2, <1>3, <1>4, <1>5, <1>6

----------------------------------------------------------------------------
(* Reads of the emulated drive *)

LEMMA CpuStep ==
  ASSUME CallsInv, CpuInv, [BootNext]_vars
  PROVE  CpuInv'
<1>1. CASE Preparing
  BY <1>1, PreparingQuiet DEF CpuInv, callVars, Booting
<1>2. CASE InitPaging \/ EnablePaging \/ InitialiseInt13
  <2>1. CASE InitPaging
    BY <2>1 DEF InitPaging, init_paging, Goto, CpuInv
  <2>2. CASE EnablePaging
    BY <2>2 DEF EnablePaging, enable_paging, pagingVars, Goto, CpuInv
  <2>3. CASE InitialiseInt13
    BY <2>3 DEF InitialiseInt13, memoryVars, Goto, CpuInv
  <2> QED BY <1>2, <2>1, <2>2, <2>3
<1>3. CASE EnterBootmgr \/ WrapperReturns
  BY <1>3 DEF EnterBootmgr, WrapperReturns, disable_paging, pagingVars, Goto, CpuInv
<1>4. CASE WrapperInt13
  <2>1. cpu \in Cpu /\ paging \in BOOLEAN
    BY DEF CallsInv, CallTypes
  <2> QED BY <1>4, <2>1 DEF WrapperInt13, enable_paging, pagingVars, Goto, CpuInv, Cpu
<1>5. CASE EmulateInt13 \/ UseMemory \/ CountDrives \/ BootmgrReturns
  BY <1>5 DEF EmulateInt13, UseMemory, CountDrives, BootmgrReturns, memoryVars, mainVars, Goto, CpuInv
<1>6. CASE MakeCall
  <2>1. /\ pc' = "wrapper" /\ cpu' \in CallerModes
    BY <1>6 DEF MakeCall, Call, Goto
  <2> QED BY <2>1, SMTT(30) DEF CpuInv, CallerModes
<1>7. CASE CallReal \/ ReturnFromReal
  <2>1. cpu \in Cpu
    BY DEF CallsInv, CallTypes
  <2>2. cpu'.cr3 = cpu.cr3 /\ paging' = paging /\ pc' \in {"real", "wrapped", "bootmgr"}
        /\ pc \in {"emulate_int13", "wrapper", "real"}
    <3>1. CASE CallReal
      BY <2>1, <3>1 DEF CallReal, Goto, Cpu, pagingVars
    <3>2. CASE ReturnFromReal
      BY <2>1, <3>2 DEF ReturnFromReal, Goto, Cpu, pagingVars
    <3> QED BY <1>7, <3>1, <3>2
  <2> QED BY <2>2 DEF CpuInv
<1>8. CASE UNCHANGED vars
  BY <1>8 DEF vars, memoryVars, mainVars, CpuInv
<1> QED BY <1>1, <1>2, <1>3, <1>4, <1>5, <1>6, <1>7, <1>8
     DEF BootNext, main, Preparing, call_interrupt_wrapper

\* Nothing of what main wants to keep is below address 0, where wimboot itself is.
LEMMA LowestNat ==
  ASSUME Apart, SpaceInv, PlaceTypes, initrd_len # 0
  PROVE  Lowest \in Nat /\ initrd \in Nat /\ Lowest <= initrd
<1>1. /\ raw_pe \in Int /\ initrd \in Int /\ initrd_len \in Nat /\ initrd + initrd_len > 0
      /\ WimbootLen \in Nat \ {0}
  BY Addresses DEF SpaceInv, PlaceTypes
<1>2. Lowest \in Int /\ Lowest <= initrd
  BY <1>1 DEF Lowest
<1>3. CASE Lowest < 0
  <2>1. 0 \in Lowest .. initrd + initrd_len - 1
    BY <1>1, <1>2, <1>3
  <2>2. 0 \in Cells(0, WimbootLen)
    BY <1>1 DEF Cells
  <2> QED BY <2>1, <2>2 DEF Apart, Lowest
<1> QED BY <1>1, <1>2, <1>3

LEMMA InMachine ==
  ASSUME PlacedInv, ChoiceInv, Relocating \/ Relocated
  PROVE  bootmgr # 0 /\ initrd_len # 0 /\ PlaceTypes
BY DEF ChoiceInv, PlacedInv, MemoryInv, PresentInv, Relocating, Relocated

\* A read of n cells, given by its offsets, shows the initrd.
LEMMA ShownCells ==
  ASSUME NEW cells, initrd_len \in Nat, machine.len \in Nat,
         Prepended = 0 \/ Prepended >= BootmgrLen,
         DOMAIN cells = 1 .. initrd_len, Len(cells) = initrd_len,
         \A j \in 0 .. initrd_len - 1 : GoodCell(j, cells[j + 1])
  PROVE  InitrdShown(cells)
<1> DEFINE n == initrd_len
           m == machine.len
<1>1. Prepended = n - m /\ n \in Nat /\ m \in Nat /\ BootmgrLen \in Nat /\ n - m >= 0
      /\ BootmgrLen > 0
  BY Addresses DEF Prepended
<1> HIDE DEF n, m
<1>2. PICK d \in Nat : d = Prepended /\ n = m + d /\ n - m = d
  BY <1>1
<1>3. SubSeq(cells, n - m + 1, n) = InitrdCells(m)
  <2>1. SubSeq(cells, d + 1, m + d) = [k \in 1 .. m |-> cells[k + d]]
    <3>1. DOMAIN cells = 1 .. m + d /\ Len(cells) = m + d
      BY <1>2 DEF n
    <3> QED BY <1>1, <3>1
  <2>2. ASSUME NEW k \in 1 .. m PROVE cells[k + d] = <<"initrd", k>>
    <3>1. k + d - 1 \in 0 .. n - 1 /\ k + d - 1 >= Prepended
          /\ (k + d - 1) - Prepended + 1 = k /\ (k + d - 1) + 1 = k + d
      BY <1>1, <1>2
    <3>2. GoodCell(k + d - 1, cells[(k + d - 1) + 1])
      BY <3>1 DEF n
    <3> QED BY <3>1, <3>2 DEF GoodCell
  <2>3. SubSeq(cells, d + 1, m + d) = InitrdCells(m)
    BY <2>1, <2>2 DEF InitrdCells
  <2> QED BY <1>2, <2>3
<1>4. ASSUME n > m PROVE SubSeq(cells, 1, BootmgrLen) = BootmgrCells
  <2>1. SubSeq(cells, 1, BootmgrLen) = [k \in 1 .. BootmgrLen |-> cells[k]]
    BY <1>1
  <2>2. ASSUME NEW k \in 1 .. BootmgrLen PROVE cells[k] = <<"bootmgr", k>>
    <3>1. k - 1 \in 0 .. n - 1 /\ k - 1 < Prepended /\ k - 1 < BootmgrLen /\ (k - 1) + 1 = k
      BY <1>1, <1>4
    <3>2. GoodCell(k - 1, cells[(k - 1) + 1])
      BY <3>1 DEF n
    <3> QED BY <1>1, <3>1, <3>2 DEF GoodCell
  <2> QED BY <2>1, <2>2 DEF BootmgrCells
<1> QED BY <1>3, <1>4 DEF InitrdShown, n, m

LEMMA RoundedUp ==
  ASSUME NEW n \in Nat, NEW u \in Nat \ {0}
  PROVE  Down(n + u - 1, u) \in Nat /\ Down(n + u - 1, u) >= n
<1> DEFINE m == n + u - 1
           q == m \div u
           r == m % u
<1>1. m \in Nat
  OBVIOUS
<1>2. q \in Int /\ r \in 0 .. u - 1 /\ m = u * q + r
  BY <1>1, DivMod
<1>3. u * q \in Int
  BY <1>2
<1>4. u * q >= n
  <2> HIDE DEF q, r
  <2> QED BY <1>1, <1>2, <1>3
<1> QED BY <1>3, <1>4 DEF Down

LEMMA Padded == padded_len(BootmgrLen) \in Nat /\ padded_len(BootmgrLen) >= BootmgrLen
BY RoundedUp, Addresses DEF padded_len

LEMMA PrependedIs ==
  ASSUME SpaceInv
  PROVE  Prepended = 0 \/ Prepended >= BootmgrLen
<1>1. machine.len \in Nat
  BY DEF SpaceInv
<1>2. initrd_len = machine.len \/ initrd_len = machine.len + padded_len(BootmgrLen)
  BY DEF SpaceInv
<1> QED BY <1>1, <1>2, Padded, Addresses DEF Prepended

\* In either build of the page tables the emulated drive finds the initrd where it is.
LEMMA EmulatedRead ==
  ASSUME PlacedInv, CpuInv, StoreInv, ChoiceInv, Good, pc = "emulate_int13"
  PROVE  InitrdShown(Load(ram, Tables, initrd, initrd_len))
<1> DEFINE cells == Load(ram, Tables, initrd, initrd_len)
<1>1. Relocated
  BY DEF Relocated, Calling
<1>2. initrd_len # 0 /\ PlaceTypes /\ SpaceInv
  BY <1>1, InMachine DEF StoreInv
<1>3. initrd \in Nat /\ initrd_len \in Nat
  BY <1>2, LowestNat DEF Good, PlaceTypes
<1>4. ASSUME NEW j \in 0 .. initrd_len - 1
      PROVE  Translate(Tables, initrd + j) = initrd_phys + j
  <2>1. CASE paging
    <3>1. Tables = pd
      BY <2>1 DEF CpuInv, Tables
    <3> QED BY <1>1, <2>1, <3>1 DEF StoreInv, InitrdInv
  <2>2. CASE ~paging
    <3>1. Tables = Identity
      BY <2>2 DEF CpuInv, Tables
    <3>2. memory_pc = "relocated"
      BY DEF PlacedInv, PhaseInv, Calling
    <3>3. initrd_phys = initrd
      BY <2>2, <3>2 DEF PlacedInv, MemoryInv, HighInv
    <3>4. initrd + j \in 0 .. ADDR_4GB - 1
      BY <1>2, <1>3, Addresses DEF SpaceInv
    <3>5. Translate(Identity, initrd + j) = initrd + j
      BY <3>4, IdentityAt
    <3> QED BY <3>1, <3>3, <3>5
  <2> QED BY <2>1, <2>2
<1>5. /\ DOMAIN cells = 1 .. initrd_len /\ Len(cells) = initrd_len
      /\ \A k \in 1 .. initrd_len : cells[k] = ram[Translate(Tables, initrd + k - 1)]
  <2>1. initrd \in Int
    BY <1>3
  <2> QED BY <1>3, <2>1, LoadAt
<1> HIDE DEF cells
<1>6. ASSUME NEW j \in 0 .. initrd_len - 1 PROVE GoodCell(j, cells[j + 1])
  <2>1. j + 1 \in 1 .. initrd_len /\ initrd + (j + 1) - 1 = initrd + j
    BY <1>3
  <2>2. cells[j + 1] = ram[initrd_phys + j]
    BY <1>4, <1>5, <2>1
  <2>3. HoldsInitrd(ram, initrd_phys)
    BY <1>1 DEF StoreInv, InitrdInv
  <2> QED BY <2>2, <2>3 DEF HoldsInitrd
<1>7. machine.len \in Nat
  BY <1>2 DEF SpaceInv
<1>8. InitrdShown(cells)
  BY <1>2, <1>3, <1>5, <1>6, <1>7, PrependedIs, ShownCells
<1> QED BY <1>8 DEF cells

LEMMA FilesStep ==
  ASSUME CallsInv, CallsInv', PlacedInv, ChoiceInv, CpuInv, StoreInv, FilesIntact,
         [BootNext]_vars
  PROVE  FilesIntact'
<1>1. CASE pc' \in Booting
  <2>1. params' = NoCall
    BY <1>1 DEF CallsInv, QuietInv
  <2> QED BY <2>1 DEF FilesIntact, NoCall
<1>2. CASE pc \in Booting /\ params' = params
  <2>1. params = NoCall
    BY <1>2 DEF CallsInv, QuietInv
  <2> QED BY <1>2, <2>1 DEF FilesIntact, NoCall
<1>3. ASSUME UNCHANGED <<machine, pe, raw_pe, initrd, initrd_len, paging>>
      PROVE  /\ (Apart /\ WellFormedImage)' <=> Good
             /\ \A cells : InitrdShown(cells)' <=> InitrdShown(cells)
  BY <1>3 DEF Good, Apart, WellFormedImage, Image, RoomForSections, Minimum, Cells, InitrdShown
<1>4. CASE UNCHANGED <<machine, pe, raw_pe, initrd, initrd_len, paging, params>>
  BY <1>3, <1>4 DEF FilesIntact, Good, InitrdShown
<1>5. CASE Preparing \/ InitPaging \/ EnablePaging \/ InitialiseInt13 \/ EnterBootmgr
  <2>1. pc \in Booting /\ params' = params
    <3>1. CASE Preparing
      BY <3>1, PreparingQuiet DEF callVars
    <3>2. CASE InitPaging \/ EnablePaging \/ InitialiseInt13 \/ EnterBootmgr
      BY <3>2 DEF InitPaging, EnablePaging, InitialiseInt13, initialise_int13, EnterBootmgr,
                  int13Vars, Booting
    <3> QED BY <1>5, <3>1, <3>2
  <2> QED BY <1>2, <2>1
<1>6. CASE UseMemory \/ CountDrives \/ BootmgrReturns \/ UNCHANGED vars
  <2>1. UNCHANGED <<machine, pe, raw_pe, initrd, initrd_len, paging, params>>
    BY <1>6 DEF UseMemory, CountDrives, BootmgrReturns, mainVars, memoryVars, int13Vars, vars,
                MainUnchanged
  <2> QED BY <1>4, <2>1
<1>7. CASE WrapperInt13 \/ CallReal \/ WrapperReturns
  <2>1. UNCHANGED <<machine, pe, raw_pe, initrd, initrd_len, paging, params>>
    BY <1>7 DEF WrapperInt13, CallReal, WrapperReturns, enable_paging, disable_paging, pagingVars,
                int13Vars, MainUnchanged
  <2> QED BY <1>4, <2>1
<1>8. CASE MakeCall
  <2>1. params'.served = "pending"
    BY <1>8 DEF MakeCall, Call, NoCall
  <2> QED BY <2>1, SMTT(30) DEF FilesIntact
<1>9. CASE ReturnFromReal
  <2>1. DOMAIN params = Fields
    BY DEF CallsInv, CallTypes
  <2>2. params'.served = "bios"
    BY <1>9, <2>1 DEF ReturnFromReal, PassedOn, Fields
  <2> QED BY <2>2 DEF FilesIntact
<1>10. CASE EmulateInt13
  <2>1. DOMAIN params = Fields
    BY DEF CallsInv, CallTypes
  <2>2. /\ pc = "emulate_int13" /\ params'.command = params.command
        /\ params'.data = IF params.command = "extended_read"
                          THEN Load(ram, Tables, initrd, initrd_len) ELSE <<>>
        /\ UNCHANGED <<machine, pe, raw_pe, initrd, initrd_len, paging>>
    BY <1>10, <2>1 DEF EmulateInt13, Fields, MainUnchanged, memoryVars
  <2>3. Good => InitrdShown(Load(ram, Tables, initrd, initrd_len))
    BY <2>2, EmulatedRead
  <2>4. (Apart /\ WellFormedImage)' /\ params'.command = "extended_read" => InitrdShown(params'.data)
    BY <1>3, <2>2, <2>3
  <2> QED BY <2>2, <2>4 DEF FilesIntact, InitrdShown
<1> QED BY <1>5, <1>6, <1>7, <1>8, <1>9, <1>10
     DEF BootNext, main, Preparing, call_interrupt_wrapper

----------------------------------------------------------------------------
(* Memory before the image is loaded *)

LEMMA QuietStore ==
  ASSUME StoreInv,
         \/ ProcessCmdline \/ EnablePaging \/ CpioExtract \/ InitialiseInt13 \/ load_pe_fails
         \/ EnterBootmgr \/ CountDrives \/ MakeCall \/ BootmgrReturns
         \/ call_interrupt_wrapper \/ UNCHANGED vars
  PROVE  StoreInv'
<1>1. CASE ProcessCmdline \/ EnablePaging \/ CpioExtract \/ InitialiseInt13 \/ load_pe_fails
  <2>1. UNCHANGED coreVars
    <3>1. CASE CpioExtract
      BY <3>1 DEF CpioExtract, SkipPadding, EndOfArchive, BadOrTruncated, Trailer, Return,
                  MainUnchanged, memoryVars, coreVars
    <3>2. CASE ProcessCmdline \/ EnablePaging \/ InitialiseInt13 \/ load_pe_fails
      BY <3>2 DEF ProcessCmdline, EnablePaging, enable_paging, pagingVars, InitialiseInt13,
                  load_pe_fails, MainUnchanged, memoryVars, cpioVars, coreVars
    <3> QED BY <1>1, <3>1, <3>2
  <2>2. pc' \in Unread \union {"dead"} /\ (pc' \in Unread => pc \in Unread)
    BY <1>1 DEF ProcessCmdline, EnablePaging, CpioExtract, InitialiseInt13, load_pe_fails, Goto,
                Unread, Searching
  <2>3. /\ pc' \notin {"load_pe", "load_sections"} /\ ~Relocating' /\ ~Relocated'
        /\ pc' \notin Entered
    BY <2>2 DEF Unread, Searching, Relocating, Relocated, Calling, Entered
  <2> QED BY <2>1, <2>2, <2>3, StoreFrame
<1>2. CASE \/ EnterBootmgr \/ CountDrives \/ MakeCall \/ BootmgrReturns
           \/ call_interrupt_wrapper
  <2>1. UNCHANGED coreVars /\ UNCHANGED highVars /\ regions' = regions
    <3>1. CASE EnterBootmgr \/ CountDrives \/ MakeCall \/ BootmgrReturns
      BY <3>1 DEF EnterBootmgr, disable_paging, pagingVars, CountDrives, MakeCall, Call,
                  BootmgrReturns, mainVars, memoryVars, cpioVars, MainUnchanged, coreVars, highVars
    <3>2. CASE call_interrupt_wrapper
      BY <3>2, ZenonT(60) DEF call_interrupt_wrapper, WrapperInt13, EmulateInt13, CallReal, ReturnFromReal,
                  WrapperReturns, enable_paging, disable_paging, pagingVars, memoryVars, cpioVars,
                  MainUnchanged, coreVars, highVars
    <3> QED BY <1>2, <3>1, <3>2, SMTT(30)
  <2>2. pc \in Entered /\ pc' \in Calling \union {"dead"}
    <3>1. CASE EnterBootmgr \/ CountDrives \/ MakeCall \/ BootmgrReturns
      BY <3>1 DEF EnterBootmgr, CountDrives, MakeCall, Call, BootmgrReturns, mainVars, Goto,
                  Entered, Calling
    <3>2. CASE call_interrupt_wrapper
      BY <3>2 DEF call_interrupt_wrapper, WrapperInt13, EmulateInt13, CallReal, ReturnFromReal,
                  WrapperReturns, Goto, Entered, Calling
    <3> QED BY <1>2, <3>1, <3>2
  <2>3. Relocated /\ ~Relocating' /\ pc' \notin Unread \union {"load_pe", "load_sections"}
    BY <2>2 DEF Relocated, Relocating, Entered, Calling, Unread, Searching
  <2> QED BY <2>1, <2>2, <2>3, StoreFrame
<1>3. CASE UNCHANGED vars
  <2>1. UNCHANGED coreVars /\ UNCHANGED highVars /\ regions' = regions /\ pc' = pc
    BY <1>3 DEF vars, mainVars, memoryVars, cpioVars, coreVars, highVars
  <2>2. (Relocating' <=> Relocating) /\ (Relocated' <=> Relocated)
    BY <2>1 DEF Relocating, Relocated
  <2> QED BY <2>1, <2>2, StoreFrame
<1> QED BY <1>1, <1>2, <1>3

\* Before the image is loaded only the initrd has to be in its place.
LEMMA UnreadInv ==
  ASSUME pc' \in Unread, SpaceInv', FileInv', initrd' >= 0 => HoldsInitrd(ram, initrd)'
  PROVE  StoreInv'
<1>1. LoadInv'
  BY DEF LoadInv, Unread, Searching
<1>2. ~Relocating' /\ ~Relocated' /\ pc' \notin Entered
  BY DEF Unread, Searching, Relocating, Relocated, Calling, Entered
<1>3. ImageInv' /\ InitrdInv' /\ RegionsInv'
  BY <1>2 DEF ImageInv, InitrdInv, RegionsInv, Entered
<1> QED BY <1>1, <1>3 DEF StoreInv

\* As long as nothing has been moved above 4GB, addresses mean themselves.
LEMMA TablesIdentity ==
  ASSUME PlacedInv, CpuInv, memory_pc \notin {"copy", "relocated"}
  PROVE  Tables = Identity
<1>1. CASE paging
  BY <1>1 DEF PlacedInv, MemoryInv, PageInv, Tables
<1>2. CASE ~paging
  BY <1>2 DEF CpuInv, Tables
<1> QED BY <1>1, <1>2

LEMMA ContentInit == BootInit => CpuInv /\ StoreInv /\ FilesIntact
<1> SUFFICES ASSUME BootInit PROVE CpuInv /\ StoreInv /\ FilesIntact
  OBVIOUS
<1>1. CpuInv /\ FilesIntact
  BY DEF BootInit, CpuInv, FilesIntact, NoCall
<1> DEFINE free == [a \in 0 .. MemorySize - 1 |-> Free]
           cells == InitrdCells(initrd_len)
<1>2. /\ initrd \in Nat /\ initrd_len \in Nat /\ initrd + initrd_len <= ADDR_4GB
      /\ machine.len = initrd_len /\ bootmgr = 0 /\ raw_pe = 0 /\ pc = "process_cmdline"
      /\ ram = Store(free, Identity, initrd, cells) /\ machine.image \in Images
  BY DEF BootInit
<1>3. Len(cells) = initrd_len /\ DOMAIN free = MemoryCells
  <2>1. cells \in [1 .. initrd_len -> {<<"initrd", k>> : k \in 1 .. initrd_len}]
    BY DEF InitrdCells
  <2>2. Len(cells) = initrd_len
    BY <1>2, <2>1, CellCount
  <2> QED BY <2>2 DEF MemoryCells
<1> HIDE DEF free, cells
<1>4. Written(ram, free, initrd, initrd_len, cells)
  BY <1>2, <1>3, StoreLow
<1>5. HoldsInitrd(ram, initrd)
  <2> SUFFICES ASSUME NEW j \in 0 .. initrd_len - 1 PROVE GoodCell(j, ram[initrd + j])
    BY DEF HoldsInitrd
  <2>1. initrd + j \in MemoryCells /\ initrd <= initrd + j /\ initrd + j < initrd + initrd_len
        /\ (initrd + j) - initrd + 1 = j + 1 /\ j + 1 \in 1 .. initrd_len
    BY <1>2, Addresses DEF MemoryCells
  <2>2. ram[initrd + j] = cells[j + 1]
    BY <1>4, <2>1 DEF Written
  <2>3. cells[j + 1] = <<"initrd", j + 1>>
    BY <2>1 DEF cells, InitrdCells
  <2>4. Prepended = 0
    BY <1>2 DEF Prepended
  <2> QED BY <2>2, <2>3, <2>4 DEF GoodCell
<1>6. SpaceInv
  <2>1. \A i \in 1 .. Len(archive.items) :
          IsMember(archive.items[i]) /\ archive.items[i].name = "bootmgr.exe" =>
            BootmgrAt + BootmgrLen <= machine.len
    BY DEF BootInit
  <2>2. /\ machine.len \in Nat /\ raw_pe \in Int /\ initrd + initrd_len \in 0 .. ADDR_4GB
        /\ initrd_len > 0 => initrd + initrd_len > 0
    BY <1>2, Addresses
  <2>3. DOMAIN ram = MemoryCells
    BY <1>4 DEF Written
  <2> QED BY <1>2, <2>1, <2>2, <2>3 DEF SpaceInv
<1>7. FileInv
  BY <1>2 DEF FileInv
<1>8. LoadInv
  BY <1>2, <1>5 DEF LoadInv, Searching
<1>9. ImageInv /\ InitrdInv /\ RegionsInv
  BY <1>2 DEF ImageInv, InitrdInv, RegionsInv, Relocating, Relocated, Calling
<1> QED BY <1>1, <1>6, <1>7, <1>8, <1>9 DEF StoreInv

LEMMA InitPagingStore ==
  ASSUME StoreInv, InitPaging
  PROVE  StoreInv'
<1>1. /\ pc \in Unread /\ pc' \in Unread
      /\ UNCHANGED <<ram, machine, archive, files, bootmgr, pe, raw_pe, initrd, initrd_len>>
  BY DEF InitPaging, init_paging, Goto, MainUnchanged, cpioVars, Unread, Searching
<1>2. SpaceInv' /\ FileInv'
  BY <1>1 DEF StoreInv, SpaceInv, IsMember, FileInv, ArchiveStart
<1>3. initrd' >= 0 => HoldsInitrd(ram, initrd)'
  BY <1>1 DEF StoreInv, LoadInv, Unread, HoldsInitrd, GoodCell, Prepended
<1> QED BY <1>1, <1>2, <1>3, UnreadInv

LEMMA ProcessWimStore ==
  ASSUME StoreInv, ChoiceInv, ChoiceInv', ProcessWim
  PROVE  StoreInv'
<1> DEFINE others == IF bootwim # 0 THEN FromWim(files, WimFiles) ELSE <<>>
<1>1. /\ pc = "wim" /\ pc' = "int13"
      /\ UNCHANGED <<ram, machine, archive, extracted, pe, raw_pe, initrd, initrd_len, paging>>
      /\ bootmgr # 0 => bootmgr' = bootmgr /\ files' = files \o <<>> \o others
  BY DEF ProcessWim, Goto, memoryVars, cpioVars
<1>2. files \in Seq(VirtualFiles) /\ bootmgr \in 0 .. Len(files) /\ Len(files) \in Nat
  BY DEF ChoiceInv, ChoiceTypes
<1>3. others \in Seq(VirtualFiles)
  BY <1>2, FromWimListed
<1> HIDE DEF others
<1>4. ASSUME bootmgr # 0 PROVE bootmgr' # 0 /\ files'[bootmgr'] = files[bootmgr]
  <2>1. files \o <<>> = files
    BY <1>2, ConcatEmptySeq
  <2>2. /\ bootmgr \in 1 .. Len(files) /\ Len(others) \in Nat
        /\ bootmgr \in 1 .. Len(files) + Len(others)
    BY <1>2, <1>3, <1>4
  <2>3. (files \o others)[bootmgr] = files[bootmgr]
    BY <1>2, <1>3, <2>2, ConcatProperties
  <2> QED BY <1>1, <1>4, <2>1, <2>3
<1>5. ASSUME bootmgr = 0, bootmgr' # 0 PROVE files'[bootmgr'].from \notin {"initrd", "embedded"}
  <2>1. files'[bootmgr'].from = BootmgrSource' /\ BootmgrSource' = BootmgrSource
    BY <1>1, <1>5, SameSource DEF ChoiceInv
  <2>2. ~InArchive
    BY <1>1, <1>5 DEF ChoiceInv, Searching
  <2> QED BY <2>1, <2>2 DEF BootmgrSource, InArchive
<1>6. FileInv'
  BY <1>1, <1>4, <1>5 DEF StoreInv, FileInv, ArchiveStart
<1>7. SpaceInv'
  BY <1>1, <1>4 DEF StoreInv, SpaceInv, IsMember
<1>8. initrd' >= 0 => HoldsInitrd(ram, initrd)'
  BY <1>1 DEF StoreInv, LoadInv, Searching, HoldsInitrd, GoodCell, Prepended
<1>9. pc' \in Unread
  BY <1>1 DEF Unread
<1> QED BY <1>6, <1>7, <1>8, <1>9, UnreadInv

\* The place below 2GB is in a region of RAM.
LEMMA LowPlace ==
  ASSUME PlaceTypes, NEW entry \in Entries, FitsLow(entry)
  PROVE  /\ LowStart(entry) \in Nat \ {0}
         /\ LowStart(entry) + initrd_len <= ADDR_2GB
<1> DEFINE room == Minimum(EndOf(entry), ADDR_2GB) - initrd_len
           q == room \div PAGE_SIZE
<1>1. /\ PAGE_SIZE \in Nat \ {0} /\ ADDR_2GB \in Nat /\ ADDR_1MB \in Nat \ {0}
      /\ initrd_len \in Nat /\ EndOf(entry) \in Nat
  BY MemoryAssumption DEF PlaceTypes, Entries, EndOf
<1>2. room \in Int /\ room + initrd_len <= ADDR_2GB
  BY <1>1 DEF Minimum
<1>3. q \in Int /\ room % PAGE_SIZE \in 0 .. PAGE_SIZE - 1 /\ room = PAGE_SIZE * q + (room % PAGE_SIZE)
  <2> HIDE DEF room
  <2> QED BY <1>1, <1>2, DivMod
<1>4. LowStart(entry) = PAGE_SIZE * q /\ LowStart(entry) >= ADDR_1MB
  BY DEF LowStart, Down, FitsLow
<1> HIDE DEF room, q
<1>5. PAGE_SIZE * q \in Int
  BY <1>1, <1>3
<1> QED BY <1>1, <1>2, <1>3, <1>4, <1>5

\* memmove of the initrd below 2GB.
LEMMA MoveLow ==
  ASSUME NEW at \in Nat, initrd \in Nat, initrd_len \in Nat, DOMAIN ram = MemoryCells,
         initrd + initrd_len <= ADDR_4GB, at + initrd_len <= ADDR_4GB,
         HoldsInitrd(ram, initrd), NEW new,
         new = Store(ram, Identity, at, Load(ram, Identity, initrd, initrd_len))
  PROVE  DOMAIN new = MemoryCells /\ HoldsInitrd(new, at)
<1> DEFINE cells == Load(ram, Identity, initrd, initrd_len)
<1>1. /\ DOMAIN cells = 1 .. initrd_len /\ Len(cells) = initrd_len
      /\ \A k \in 1 .. initrd_len : cells[k] = ram[Translate(Identity, initrd + k - 1)]
  <2>1. initrd \in Int
    OBVIOUS
  <2> QED BY <2>1, LoadAt
<1>2. new = Store(ram, Identity, at, cells)
  OBVIOUS
<1> HIDE DEF cells
<1>3. Written(new, ram, at, initrd_len, cells)
  BY <1>1, <1>2, StoreLow
<1>4. ASSUME NEW j \in 0 .. initrd_len - 1 PROVE GoodCell(j, new[at + j])
  <2>1. /\ at + j \in MemoryCells /\ at <= at + j /\ at + j < at + initrd_len
        /\ (at + j) - at + 1 = j + 1 /\ j + 1 \in 1 .. initrd_len
        /\ initrd + (j + 1) - 1 = initrd + j /\ initrd + j \in 0 .. ADDR_4GB - 1
    BY Addresses DEF MemoryCells
  <2>2. new[at + j] = cells[j + 1]
    BY <1>3, <2>1 DEF Written
  <2>3. cells[j + 1] = ram[initrd + j]
    BY <1>1, <2>1, IdentityAt
  <2> QED BY <2>2, <2>3 DEF HoldsInitrd
<1> QED BY <1>3, <1>4 DEF Written, HoldsInitrd

Early == {"process_cmdline", "init_paging", "enable_paging", "relocate_low"}
EarlyInv == pc \in Early => bootmgr = 0 /\ initrd \in Nat

LEMMA EarlyStep ==
  ASSUME PlacedInv, EarlyInv, [BootNext]_vars
  PROVE  EarlyInv'
<1>1. CASE ProcessCmdline \/ InitPaging \/ EnablePaging \/ UNCHANGED vars
  <2>1. /\ (pc' \in Early => pc \in Early) /\ UNCHANGED <<bootmgr, initrd>>
    BY <1>1 DEF ProcessCmdline, InitPaging, init_paging, EnablePaging, enable_paging, pagingVars,
                Goto, MainUnchanged, memoryVars, mainVars, vars, Early
  <2> QED BY <2>1 DEF EarlyInv
<1>2. CASE RelocateLow
  <2>1. pc \in Early /\ UNCHANGED bootmgr /\ relocate_memory_low
    BY <1>2 DEF RelocateLow, MainUnchanged, Early
  <2>2. CASE UNCHANGED initrd
    BY <2>1, <2>2 DEF EarlyInv
  <2>3. CASE TryLow /\ FitsLow(e820[region])
    <3>1. PlaceTypes /\ e820[region] \in Entries
      BY <2>3 DEF TryLow, PlacedInv, MemoryInv, PlaceTypes, WalkInv, Trying, IsMemoryMap
    <3>2. initrd' \in Nat
      BY <2>3, <3>1, LowPlace DEF TryLow
    <3> QED BY <2>1, <3>2 DEF EarlyInv
  <2> QED BY <2>1, <2>2, <2>3 DEF relocate_memory_low, NextLow, TryLow
<1>3. CASE \/ AddFile \/ CpioExtract \/ ProcessWim \/ InitialiseInt13 \/ ReadPe \/ load_pe
           \/ load_pe_fails \/ RelocateHigh \/ Describe \/ EnterBootmgr
  <2>1. pc' \notin Early
    BY <1>3 DEF AddFile, CpioExtract, ProcessWim, InitialiseInt13, ReadPe, load_pe, load_pe_header,
                load_pe_section, load_pe_raw, load_pe_fails, RelocateHigh, Describe, EnterBootmgr,
                Goto, Early
  <2> QED BY <2>1 DEF EarlyInv
<1>4. CASE call_interrupt_wrapper \/ UseMemory \/ CountDrives \/ MakeCall \/ BootmgrReturns
  <2>1. pc' \notin Early
    BY <1>4, ZenonT(60) DEF call_interrupt_wrapper, WrapperInt13, EmulateInt13, CallReal, ReturnFromReal,
                WrapperReturns, UseMemory, CountDrives, MakeCall, Call, BootmgrReturns, mainVars,
                Goto, Early
  <2> QED BY <2>1 DEF EarlyInv
<1> QED BY <1>1, <1>2, <1>3, <1>4 DEF BootNext, main

LEMMA RelocateLowStore ==
  ASSUME StoreInv, PlacedInv, CpuInv, EarlyInv, RelocateLow
  PROVE  StoreInv'
<1> DEFINE entry == e820[region]
           at == LowStart(entry)
<1>1. /\ pc = "relocate_low" /\ pc' \in {"relocate_low", "extract"} /\ relocate_memory_low
      /\ UNCHANGED <<machine, archive, files, bootmgr, pe, raw_pe, initrd_len, paging>>
  BY DEF RelocateLow, Goto, MainUnchanged, cpioVars, relocate_memory_low, NextLow, TryLow,
         givenVars
<1>2. pc \in Unread /\ pc' \in Unread /\ bootmgr = 0 /\ initrd \in Nat
  BY <1>1 DEF Unread, Searching, EarlyInv, Early
<1>3. FileInv'
  BY <1>1, <1>2 DEF FileInv
<1>4. CASE UNCHANGED <<ram, initrd>>
  <2>1. SpaceInv'
    BY <1>1, <1>4 DEF StoreInv, SpaceInv, IsMember
  <2>2. initrd' >= 0 => HoldsInitrd(ram, initrd)'
    BY <1>1, <1>2, <1>4 DEF StoreInv, LoadInv, Unread, HoldsInitrd, GoodCell, Prepended
  <2> QED BY <1>2, <1>3, <2>1, <2>2, UnreadInv
<1>5. CASE /\ memory_pc = "low_try" /\ FitsLow(entry) /\ initrd' = at
           /\ ram' = Store(ram, Tables, initrd', Load(ram, Tables, initrd, initrd_len))
  <2>1. Tables = Identity
    BY <1>5, TablesIdentity
  <2>2. PlaceTypes /\ entry \in Entries
    BY <1>5 DEF PlacedInv, MemoryInv, PlaceTypes, WalkInv, Trying, IsMemoryMap
  <2>3. at \in Nat \ {0} /\ at + initrd_len <= ADDR_2GB
    BY <1>5, <2>2, LowPlace
  <2> HIDE DEF at, entry
  <2>4. /\ initrd_len \in Nat /\ initrd + initrd_len <= ADDR_4GB /\ at + initrd_len <= ADDR_4GB
        /\ DOMAIN ram = MemoryCells
    BY <1>2, <2>2, <2>3, Addresses DEF PlaceTypes, StoreInv, SpaceInv
  <2>5. HoldsInitrd(ram, initrd)
    BY <1>2 DEF StoreInv, LoadInv, Unread
  <2>6. ram' = Store(ram, Identity, at, Load(ram, Identity, initrd, initrd_len)) /\ at \in Nat
    BY <1>5, <2>1, <2>3
  <2>7. DOMAIN ram' = MemoryCells /\ HoldsInitrd(ram', at)
    BY <1>2, <2>4, <2>5, <2>6, MoveLow
  <2>8. HoldsInitrd(ram, initrd)'
    BY <1>1, <1>5, <2>7 DEF HoldsInitrd, GoodCell, Prepended
  <2>9. SpaceInv'
    <3>1. /\ initrd' + initrd_len' \in 0 .. ADDR_4GB
          /\ initrd_len' > 0 => initrd' + initrd_len' > 0
      BY <1>1, <1>5, <2>3, <2>4, Addresses
    <3> QED BY <1>1, <2>7, <3>1 DEF StoreInv, SpaceInv, IsMember
  <2> QED BY <1>2, <1>3, <2>8, <2>9, UnreadInv
<1>6. \/ UNCHANGED <<ram, initrd>>
      \/ /\ memory_pc = "low_try" /\ FitsLow(entry) /\ initrd' = at
         /\ ram' = Store(ram, Tables, initrd', Load(ram, Tables, initrd, initrd_len))
  BY <1>1 DEF relocate_memory_low, NextLow, TryLow
<1> QED BY <1>4, <1>5, <1>6

\* What add_file does to the choice of bootmgr.exe.
LEMMA AddFileFiles ==
  ASSUME ChoiceInv, AddFile
  PROVE  /\ pc = "extract" /\ pc' = pc /\ cpio_len # 0
         /\ UNCHANGED <<machine, archive, pe, raw_pe>>
         /\ \/ /\ UNCHANGED memoryVars
               /\ \/ bootmgr' = bootmgr /\ (bootmgr # 0 => files'[bootmgr'] = files[bootmgr])
                  \/ /\ bootmgr' # 0
                     /\ files'[bootmgr'] = File("bootmgr.exe", "initrd", ArchiveStart + BootmgrAt)
                     /\ \E i \in 1 .. Len(archive.items) :
                          IsMember(archive.items[i]) /\ archive.items[i].name = "bootmgr.exe"
            \/ /\ add_bootmgr /\ bootmgr = 0 /\ bootmgr' # 0
               /\ files'[bootmgr'] = File("bootmgr.exe", "embedded", initrd')
<1>1. PICK member \in HeadersAt(cpio_data) : add_file(member.name)
  BY DEF AddFile
<1> DEFINE name == member.name
           file == File(name, "initrd", ArchiveStart + BootmgrAt)
           exe == File("bootmgr.exe", "embedded", initrd')
           last == Len(files)
<1>2. /\ pc = "extract" /\ pc' = pc /\ UNCHANGED <<machine, archive, pe, raw_pe>>
  BY <1>1 DEF AddFile, add_file, ExtractMember
<1>3. cpio_len # 0
  BY <1>1, CpioAssumption DEF add_file, ExtractMember, Whole
<1>4. last \in Nat /\ files \in Seq(VirtualFiles) /\ bootmgr \in 0 .. last
  BY DEF ChoiceInv, ChoiceTypes
<1>5. /\ HasEmbedded(name) => files' = files \o <<file, exe>> /\ add_bootmgr
      /\ ~HasEmbedded(name) => files' = Append(files, file) /\ UNCHANGED memoryVars
      /\ bootmgr' = CASE name = "bootmgr.exe" -> last + 1
                      [] HasEmbedded(name)    -> last + 1 + 1
                      [] OTHER                -> bootmgr
  BY <1>1 DEF add_file
<1>6. \E i \in 1 .. Len(archive.items) : IsMember(archive.items[i]) /\ archive.items[i].name = name
  BY DEF HeadersAt
<1>7. CASE HasEmbedded(name)
  <2>1. bootmgr = 0 /\ bootmgr' = last + 1 + 1 /\ files' = files \o <<file, exe>>
    BY <1>5, <1>7 DEF HasEmbedded
  <2>2. files \in Seq(VirtualFiles \union {file, exe})
    BY <1>4
  <2> HIDE DEF file, exe, last
  <2>3. <<file, exe>> \in Seq(VirtualFiles \union {file, exe}) /\ Len(<<file, exe>>) = 2
    OBVIOUS
  <2>4. last + 1 + 1 \in 1 .. last + 2
    BY <1>4
  <2>5. (files \o <<file, exe>>)[last + 1 + 1] = exe
    BY <1>4, <2>2, <2>3, <2>4, ConcatProperties DEF last
  <2>6. bootmgr' # 0
    BY <1>4, <2>1
  <2>7. add_bootmgr /\ files'[bootmgr'] = exe
    BY <1>5, <1>7, <2>1, <2>5, Zenon
  <2> QED BY <1>2, <1>3, <2>1, <2>6, <2>7, Zenon DEF exe
<1>8. CASE ~HasEmbedded(name)
  <2>1. files' = Append(files, file)
    BY <1>5, <1>8
  <2>2. files \in Seq(VirtualFiles \union {file})
    BY <1>4
  <2> HIDE DEF file, exe, last
  <2>3. /\ \A i \in 1 .. last : files'[i] = files[i]
        /\ files'[last + 1] = file
    BY <2>1, <2>2, AppendProperties DEF last
  <2>4. CASE name = "bootmgr.exe"
    BY <1>2, <1>3, <1>4, <1>5, <1>6, <1>8, <2>3, <2>4 DEF file
  <2>5. CASE name # "bootmgr.exe"
    <3>1. bootmgr' = bootmgr /\ (bootmgr # 0 => files'[bootmgr'] = files[bootmgr])
      BY <1>4, <1>5, <1>8, <2>3, <2>5
    <3> QED BY <1>2, <1>3, <1>5, <1>8, <3>1
  <2> QED BY <2>4, <2>5
<1> QED BY <1>7, <1>8

\* bootmgr.exe is put in front of the initrd, with padding.
LEMMA PutInFront ==
  ASSUME SpaceInv, initrd \in Int, initrd_len \in Nat, NEW new, NEW at,
         at = initrd - padded_len(BootmgrLen), at >= 0,
         new = Store(ram, Identity, at, BootmgrCells)
  PROVE  /\ DOMAIN new = MemoryCells
         /\ \A k \in 1 .. BootmgrLen : new[at + k - 1] = <<"bootmgr", k>>
         /\ \A a \in MemoryCells : a >= initrd => new[a] = ram[a]
<1>1. /\ at \in Nat /\ at + BootmgrLen <= initrd /\ initrd <= ADDR_4GB
      /\ BootmgrLen \in Nat /\ DOMAIN ram = MemoryCells
  BY Padded, Addresses DEF SpaceInv
<1>2. Len(BootmgrCells) = BootmgrLen
  <2>1. BootmgrCells \in [1 .. BootmgrLen -> {<<"bootmgr", k>> : k \in 1 .. BootmgrLen}]
    BY DEF BootmgrCells
  <2> QED BY <1>1, <2>1, CellCount
<1>3. Written(new, ram, at, BootmgrLen, BootmgrCells)
  <2>1. at + BootmgrLen <= ADDR_4GB
    BY <1>1, Addresses
  <2> QED BY <1>1, <1>2, <2>1, StoreLow
<1>4. ASSUME NEW k \in 1 .. BootmgrLen PROVE new[at + k - 1] = <<"bootmgr", k>>
  <2>1. /\ at + k - 1 \in MemoryCells /\ at <= at + k - 1 /\ at + k - 1 < at + BootmgrLen
        /\ (at + k - 1) - at + 1 = k
    BY <1>1, Addresses DEF MemoryCells
  <2>2. new[at + k - 1] = BootmgrCells[k]
    BY <1>3, <2>1 DEF Written
  <2> QED BY <2>2 DEF BootmgrCells
<1>5. ASSUME NEW a \in MemoryCells, a >= initrd PROVE new[a] = ram[a]
  <2>1. ~(a < at + BootmgrLen)
    BY <1>1, <1>5, Addresses DEF MemoryCells
  <2> QED BY <1>3, <2>1 DEF Written
<1> QED BY <1>3, <1>4, <1>5 DEF Written

LEMMA AddFileStore ==
  ASSUME StoreInv, PlacedInv, CpuInv, ChoiceInv, AddFile
  PROVE  StoreInv'
<1>1. /\ pc = "extract" /\ pc' = pc /\ cpio_len # 0 /\ UNCHANGED <<machine, archive, pe, raw_pe>>
  BY AddFileFiles
<1>2. pc \in Unread /\ pc' \in Unread /\ SpaceInv /\ FileInv /\ LoadInv
  BY <1>1 DEF Unread, Searching, StoreInv
<1>3. CASE UNCHANGED memoryVars
  <2>1. UNCHANGED <<ram, initrd, initrd_len>>
    BY <1>3 DEF memoryVars
  <2>2. initrd' >= 0 => HoldsInitrd(ram, initrd)'
    BY <1>1, <1>2, <2>1 DEF LoadInv, Unread, HoldsInitrd, GoodCell, Prepended
  <2>3. CASE bootmgr' = bootmgr /\ (bootmgr # 0 => files'[bootmgr'] = files[bootmgr])
    <3>1. FileInv'
      BY <1>1, <1>2, <2>1, <2>3 DEF FileInv, ArchiveStart
    <3>2. SpaceInv'
      BY <1>1, <1>2, <2>1, <2>3 DEF SpaceInv, IsMember
    <3> QED BY <1>2, <2>2, <3>1, <3>2, UnreadInv
  <2>4. CASE /\ bootmgr' # 0
             /\ files'[bootmgr'] = File("bootmgr.exe", "initrd", ArchiveStart + BootmgrAt)
             /\ \E i \in 1 .. Len(archive.items) :
                  IsMember(archive.items[i]) /\ archive.items[i].name = "bootmgr.exe"
    <3>1. BootmgrAt + BootmgrLen <= machine.len
      BY <1>2, <2>4 DEF SpaceInv
    <3>2. FileInv'
      BY <1>1, <2>1, <2>4, <3>1 DEF FileInv, ArchiveStart, File
    <3>3. SpaceInv'
      BY <1>1, <1>2, <2>1, <2>4 DEF SpaceInv, IsMember
    <3> QED BY <1>2, <2>2, <3>2, <3>3, UnreadInv
  <2>5. CASE add_bootmgr /\ bootmgr = 0
    <3>1. FALSE
      <4>1. initrd' = initrd - padded_len(BootmgrLen) /\ initrd \in Int
        BY <2>5 DEF add_bootmgr, PlacedInv, MemoryInv, PlaceTypes
      <4> QED BY <2>1, <4>1, Padded, Addresses
    <3> QED BY <3>1
  <2> QED BY <2>3, <2>4, <2>5, AddFileFiles
<1>4. CASE /\ add_bootmgr /\ bootmgr = 0 /\ bootmgr' # 0
           /\ files'[bootmgr'] = File("bootmgr.exe", "embedded", initrd')
  <2> DEFINE pad == padded_len(BootmgrLen)
  <2>1. /\ initrd' = initrd - pad /\ initrd_len' = initrd_len + pad
        /\ ram' = Store(ram, Tables, initrd', BootmgrCells)
    BY <1>4 DEF add_bootmgr
  <2>2. memory_pc = "placed" /\ initrd \in Int /\ initrd_len \in Nat
    BY <1>1 DEF PlacedInv, PhaseInv, MemoryInv, PlaceTypes
  <2>3. ram' = Store(ram, Identity, initrd', BootmgrCells)
    BY <2>1, <2>2, TablesIdentity
  <2>4. pad \in Nat /\ pad >= BootmgrLen /\ BootmgrLen \in Nat \ {0}
    BY Padded, Addresses
  <2> HIDE DEF pad
  <2>5. initrd_len = machine.len /\ machine.len \in Nat /\ Prepended = 0 /\ Prepended' = pad
    BY <1>1, <1>2, <1>4, <2>1, <2>2, <2>4 DEF SpaceInv, Prepended
  <2>6. DOMAIN ram' = MemoryCells
    BY <1>2, <2>3 DEF Store, SpaceInv
  <2>7. SpaceInv'
    <3>1. initrd' + initrd_len' = initrd + initrd_len
      BY <2>1, <2>2, <2>4
    <3>2. initrd_len' > 0 => initrd_len > 0
      BY <1>1, <2>2 DEF PlacedInv, PresentInv
    <3>3. initrd_len' = machine'.len + padded_len(BootmgrLen)
      BY <1>1, <2>1, <2>5 DEF pad
    <3> QED BY <1>1, <1>2, <1>4, <2>6, <3>1, <3>2, <3>3 DEF SpaceInv, IsMember
  <2>8. FileInv'
    <3>1. initrd_len' = machine'.len + padded_len(BootmgrLen)
      BY <1>1, <2>1, <2>5 DEF pad
    <3> QED BY <1>4, <3>1 DEF FileInv, File
  <2>9. ASSUME initrd' >= 0 PROVE HoldsInitrd(ram, initrd)'
    <3>1. /\ \A k \in 1 .. BootmgrLen : ram'[initrd' + k - 1] = <<"bootmgr", k>>
          /\ \A a \in MemoryCells : a >= initrd => ram'[a] = ram[a]
      BY <1>2, <2>1, <2>2, <2>3, <2>9, PutInFront DEF pad
    <3>2. initrd >= 0 /\ HoldsInitrd(ram, initrd)
      BY <1>2, <2>1, <2>2, <2>4, <2>9 DEF LoadInv, Unread
    <3>3. ASSUME NEW j \in 0 .. initrd_len' - 1 PROVE GoodCell(j, ram[initrd + j])'
      <4>1. CASE j >= pad
        <5>1. j - pad \in 0 .. initrd_len - 1 /\ j \in Int
          BY <2>1, <2>2, <2>4, <3>3, <4>1
        <5>2. /\ initrd + (j - pad) \in MemoryCells /\ initrd + (j - pad) >= initrd
              /\ initrd' + j = initrd + (j - pad)
          BY <1>2, <2>1, <2>2, <2>4, <3>2, <4>1, <5>1, Addresses DEF MemoryCells, SpaceInv
        <5>3. ram'[initrd' + j] = ram[initrd + (j - pad)]
          BY <3>1, <5>2
        <5>4. GoodCell(j - pad, ram[initrd + (j - pad)])
          BY <3>2, <5>1 DEF HoldsInitrd
        <5>5. ram'[initrd' + j] = <<"initrd", j - pad + 1>>
          <6>1. (j - pad) - 0 + 1 = j - pad + 1 /\ j - pad >= 0
            BY <2>4, <4>1, <5>1
          <6> QED BY <2>5, <5>3, <5>4, <6>1 DEF GoodCell
        <5> QED BY <2>4, <2>5, <4>1, <5>1, <5>5 DEF GoodCell
      <4>2. CASE j < pad
        <5>1. ASSUME j < BootmgrLen PROVE ram'[initrd' + j] = <<"bootmgr", j + 1>>
          <6>1. j + 1 \in 1 .. BootmgrLen /\ initrd' + (j + 1) - 1 = initrd' + j
            BY <2>1, <2>2, <2>4, <3>3, <5>1
          <6> QED BY <3>1, <6>1
        <5> QED BY <2>1, <2>2, <2>4, <2>5, <3>3, <4>2, <5>1 DEF GoodCell
      <4> QED BY <2>1, <2>2, <2>4, <3>3, <4>1, <4>2
    <3> QED BY <3>3 DEF HoldsInitrd
  <2> QED BY <1>2, <2>7, <2>8, <2>9, UnreadInv
<1> QED BY <1>3, <1>4, AddFileFiles

----------------------------------------------------------------------------
(* Loading the image *)

LEMMA FileCells ==
  ASSUME machine.len \in Nat, files[bootmgr].from = "initrd" => BootmgrAt + BootmgrLen <= machine.len,
         NEW k \in 1 .. BootmgrLen
  PROVE  BootmgrFile[k]
           = IF files[bootmgr].from = "initrd" THEN <<"initrd", BootmgrAt + k>> ELSE <<"bootmgr", k>>
<1>1. BootmgrLen \in Nat /\ BootmgrAt \in Nat
  BY Addresses
<1>2. CASE files[bootmgr].from = "initrd"
  <2> DEFINE cells == InitrdCells(machine.len)
             S == {<<"initrd", i>> : i \in 1 .. machine.len}
  <2>1. cells \in [1 .. machine.len -> S]
    BY DEF InitrdCells
  <2>2. cells \in Seq(S) /\ Len(cells) = machine.len
    BY <2>1, CellCount
  <2>3. BootmgrAt + k \in 1 .. machine.len
    BY <1>1, <1>2
  <2>4. cells[BootmgrAt + k] = <<"initrd", BootmgrAt + k>>
    BY <2>3 DEF InitrdCells
  <2> HIDE DEF cells, S
  <2>5. SubSeq(cells, BootmgrAt + 1, BootmgrAt + BootmgrLen)
          = [i \in 1 .. BootmgrLen |-> cells[i + BootmgrAt]]
    BY <1>1, <1>2, <2>2
  <2>6. SubSeq(cells, BootmgrAt + 1, BootmgrAt + BootmgrLen)[k] = cells[BootmgrAt + k]
    <3>1. k + BootmgrAt = BootmgrAt + k
      BY <1>1
    <3> QED BY <2>5, <3>1
  <2> QED BY <1>2, <2>4, <2>6 DEF BootmgrFile, cells
<1>3. CASE files[bootmgr].from # "initrd"
  BY <1>3 DEF BootmgrFile, BootmgrCells
<1> QED BY <1>2, <1>3

LEMMA ReadPeStore ==
  ASSUME StoreInv, PlacedInv, CpuInv, ChoiceInv, ReadPe
  PROVE  StoreInv'
<1> DEFINE from == files[bootmgr].from
           pad == padded_len(BootmgrLen)
<1>1. /\ pc = "read_pe" /\ pc' = "load_pe"
      /\ IF from = "wim"
         THEN /\ raw_pe' = initrd - pad
              /\ ram' = Store(ram, Tables, raw_pe', BootmgrCells)
         ELSE raw_pe' = files[bootmgr].opaque /\ UNCHANGED ram
      /\ UNCHANGED <<machine, archive, files, bootmgr, pe, initrd, initrd_len, paging>>
  BY DEF ReadPe, Goto, cpioVars
<1>2. /\ bootmgr # 0 /\ memory_pc = "placed" /\ initrd \in Int /\ initrd_len \in Nat
      /\ files[bootmgr] \in VirtualFiles /\ initrd_len # 0
  BY <1>1 DEF ChoiceInv, ChoiceTypes, PlacedInv, PhaseInv, PresentInv, MemoryInv, PlaceTypes
<1>3. from \in {"initrd", "embedded", "wim"} /\ files[bootmgr].opaque \in Int
  BY <1>2 DEF VirtualFiles
<1>4. SpaceInv /\ FileInv /\ machine.len \in Nat /\ DOMAIN ram = MemoryCells
      /\ initrd + initrd_len <= ADDR_4GB
  BY Addresses DEF StoreInv, SpaceInv
<1>5. initrd >= 0 => HoldsInitrd(ram, initrd)
  BY <1>1 DEF StoreInv, LoadInv
<1>6. pad \in Nat /\ pad >= BootmgrLen /\ BootmgrLen \in Nat \ {0} /\ BootmgrAt \in Nat
  BY Padded, Addresses
<1>7. /\ from = "initrd" => /\ BootmgrAt + BootmgrLen <= machine.len
                            /\ files[bootmgr].opaque = initrd + initrd_len - machine.len + BootmgrAt
      /\ from = "embedded" => initrd_len = machine.len + pad /\ files[bootmgr].opaque = initrd
  BY <1>2, <1>4 DEF FileInv, ArchiveStart
<1>8. ASSUME NEW k \in 1 .. BootmgrLen
      PROVE  BootmgrFile[k] = IF from = "initrd" THEN <<"initrd", BootmgrAt + k>> ELSE <<"bootmgr", k>>
  BY <1>4, <1>7, FileCells
<1>9. BootmgrFile' = BootmgrFile
  BY <1>1 DEF BootmgrFile
<1> HIDE DEF from, pad
<1>10. raw_pe' \in Int /\ DOMAIN ram' = MemoryCells
  BY <1>1, <1>2, <1>3, <1>4, <1>6 DEF Store
<1>11. SpaceInv' /\ FileInv'
  BY <1>1, <1>4, <1>10 DEF SpaceInv, IsMember, FileInv, ArchiveStart
<1>12. RawInTaken'
  BY <1>1, <1>2, <1>3, <1>4, <1>6, <1>7 DEF RawInTaken
<1>13. ASSUME Lowest' >= 0 PROVE HoldsInitrd(ram, initrd)' /\ HoldsFile(ram)'
  <2>1. initrd >= 0 /\ raw_pe' >= 0
    BY <1>1, <1>2, <1>10, <1>13 DEF Lowest
  <2>2. HoldsInitrd(ram, initrd)
    BY <1>5, <2>1
  <2>3. CASE from = "wim"
    <3>1. raw_pe' = initrd - pad /\ ram' = Store(ram, Identity, raw_pe', BootmgrCells)
      BY <1>1, <1>2, <2>3, TablesIdentity
    <3>2. /\ \A k \in 1 .. BootmgrLen : ram'[raw_pe' + k - 1] = <<"bootmgr", k>>
          /\ \A a \in MemoryCells : a >= initrd => ram'[a] = ram[a]
      BY <1>2, <1>4, <2>1, <3>1, PutInFront DEF pad
    <3>3. HoldsFile(ram)'
      BY <1>8, <1>9, <2>3, <3>2 DEF HoldsFile
    <3>4. ASSUME NEW j \in 0 .. initrd_len - 1 PROVE GoodCell(j, ram'[initrd + j])
      <4>1. initrd + j \in MemoryCells /\ initrd + j >= initrd
        BY <1>2, <1>4, <2>1, Addresses DEF MemoryCells
      <4> QED BY <2>2, <3>2, <4>1 DEF HoldsInitrd
    <3> QED BY <1>1, <3>3, <3>4 DEF HoldsInitrd, GoodCell, Prepended
  <2>4. CASE from # "wim"
    <3>1. raw_pe' = files[bootmgr].opaque /\ ram' = ram
      BY <1>1, <2>4
    <3>2. HoldsInitrd(ram, initrd)'
      BY <1>1, <2>2, <3>1 DEF HoldsInitrd, GoodCell, Prepended
    <3>3. CASE from = "initrd"
      <4>1. ASSUME NEW k \in 1 .. BootmgrLen PROVE ram[raw_pe' + k - 1] = BootmgrFile[k]
        <5> DEFINE j == initrd_len - machine.len + BootmgrAt + k - 1
        <5>1. /\ j \in 0 .. initrd_len - 1 /\ j >= Prepended
              /\ j - Prepended + 1 = BootmgrAt + k /\ initrd + j = raw_pe' + k - 1
          <6>1. initrd_len - machine.len >= 0
            BY <1>4, <1>6, Padded DEF SpaceInv
          <6> QED BY <1>2, <1>3, <1>4, <1>6, <1>7, <3>1, <3>3, <6>1 DEF Prepended
        <5>2. GoodCell(j, ram[initrd + j])
          BY <2>2, <5>1 DEF HoldsInitrd
        <5>3. ram[raw_pe' + k - 1] = <<"initrd", BootmgrAt + k>>
          BY <5>1, <5>2 DEF GoodCell
        <5> QED BY <1>8, <3>3, <5>3
      <4> QED BY <1>9, <3>1, <3>2, <4>1 DEF HoldsFile
    <3>4. CASE from = "embedded"
      <4>1. ASSUME NEW k \in 1 .. BootmgrLen PROVE ram[raw_pe' + k - 1] = BootmgrFile[k]
        <5>1. /\ k - 1 \in 0 .. initrd_len - 1 /\ k - 1 < Prepended /\ k - 1 < BootmgrLen
              /\ (k - 1) + 1 = k /\ initrd + (k - 1) = raw_pe' + k - 1
          BY <1>2, <1>3, <1>4, <1>6, <1>7, <3>1, <3>4 DEF Prepended
        <5>2. GoodCell(k - 1, ram[initrd + (k - 1)])
          BY <2>2, <5>1 DEF HoldsInitrd
        <5>3. ram[raw_pe' + k - 1] = <<"bootmgr", k>>
          BY <5>1, <5>2 DEF GoodCell
        <5> QED BY <1>8, <3>4, <5>3
      <4> QED BY <1>9, <3>1, <3>2, <4>1 DEF HoldsFile
    <3> QED BY <1>3, <2>4, <3>3, <3>4
  <2> QED BY <2>3, <2>4
<1>14. LoadInv'
  BY <1>1, <1>12, <1>13 DEF LoadInv, Searching
<1>15. ImageInv' /\ InitrdInv' /\ RegionsInv'
  BY <1>1 DEF ImageInv, InitrdInv, RegionsInv, Relocating, Relocated, Calling
<1> QED BY <1>11, <1>14, <1>15 DEF StoreInv

LEMMA ImageTypes ==
  ASSUME SpaceInv
  PROVE  /\ Image.base \in Nat /\ Image.header_len \in Nat /\ Image.section_align \in Nat \ {0}
         /\ Len(Image.sections) \in Nat
         /\ \A i \in 1 .. Len(Image.sections) :
              /\ Image.sections[i].virtual \in Nat /\ Image.sections[i].virtual_len \in Nat
              /\ Image.sections[i].raw \in Nat /\ Image.sections[i].raw_len \in Nat
<1>1. Image \in Images
  BY DEF SpaceInv, Image
<1> DEFINE Section == [virtual : Nat, virtual_len : Nat, raw : Nat, raw_len : Nat]
<1>2. /\ Image.base \in Nat /\ Image.header_len \in Nat /\ Image.section_align \in Nat \ {0}
      /\ Image.sections \in Seq(Section)
  BY <1>1 DEF Images
<1>3. ASSUME NEW i \in 1 .. Len(Image.sections) PROVE Image.sections[i] \in Section
  <2> HIDE DEF Section
  <2> QED BY <1>2
<1>4. ASSUME NEW i \in 1 .. Len(Image.sections)
      PROVE  /\ Image.sections[i].virtual \in Nat /\ Image.sections[i].virtual_len \in Nat
             /\ Image.sections[i].raw \in Nat /\ Image.sections[i].raw_len \in Nat
  BY <1>3
<1> QED BY <1>2, <1>4

\* What load_pe_header, load_pe_section and load_pe_raw have in common.
LEMMA LoadFacts ==
  ASSUME StoreInv, PlacedInv, CpuInv, ChoiceInv, load_pe
  PROVE  /\ UNCHANGED <<machine, archive, files, bootmgr, raw_pe, initrd, initrd_len, paging,
                        memory_pc>>
         /\ initrd \in Int /\ initrd_len \in Nat \ {0} /\ raw_pe \in Int /\ RawInTaken
         /\ initrd + initrd_len <= ADDR_4GB /\ initrd + initrd_len > 0
         /\ Tables = Identity /\ DOMAIN ram = MemoryCells /\ memory_pc = "placed"
         /\ pc \in {"load_pe", "load_sections"}
<1>1. /\ UNCHANGED <<machine, archive, files, bootmgr, raw_pe, initrd, initrd_len, paging,
                     memory_pc>>
      /\ pc \in {"load_pe", "load_sections"}
  BY DEF load_pe, load_pe_header, load_pe_section, load_pe_raw, loadUnchanged, cpioVars
<1>2. memory_pc = "placed" /\ bootmgr # 0
  BY <1>1 DEF PlacedInv, PhaseInv, PresentInv
<1>3. initrd \in Int /\ initrd_len \in Nat \ {0}
  BY <1>2 DEF PlacedInv, PresentInv, MemoryInv, PlaceTypes
<1>4. /\ raw_pe \in Int /\ initrd + initrd_len <= ADDR_4GB /\ initrd + initrd_len > 0
      /\ DOMAIN ram = MemoryCells
  BY <1>3, Addresses DEF StoreInv, SpaceInv
<1>5. RawInTaken
  BY <1>1 DEF StoreInv, LoadInv
<1>6. Tables = Identity
  BY <1>2, TablesIdentity
<1> QED BY <1>1, <1>2, <1>3, <1>4, <1>5, <1>6

\* The initrd and the file stay as they are if their cells do.
LEMMA TakenKept ==
  ASSUME NEW mem, NEW new, HoldsInitrd(mem, initrd), HoldsFile(mem), RawInTaken, Lowest >= 0,
         initrd \in Int, initrd_len \in Nat, raw_pe \in Int, initrd + initrd_len <= ADDR_4GB,
         \A a \in MemoryCells : InTaken(a) => new[a] = mem[a]
  PROVE  HoldsInitrd(new, initrd) /\ HoldsFile(new)
<1>1. BootmgrLen \in Nat /\ ADDR_4GB \in Nat /\ MemorySize \in Nat /\ ADDR_4GB < MemorySize
  BY Addresses
<1>2. ASSUME NEW j \in 0 .. initrd_len - 1 PROVE GoodCell(j, new[initrd + j])
  <2>1. initrd + j \in MemoryCells /\ InTaken(initrd + j)
    BY <1>1 DEF MemoryCells, InTaken, Lowest
  <2> QED BY <2>1 DEF HoldsInitrd
<1>3. ASSUME NEW k \in 1 .. BootmgrLen PROVE new[raw_pe + k - 1] = BootmgrFile[k]
  <2>1. raw_pe + k - 1 \in MemoryCells /\ InTaken(raw_pe + k - 1)
    BY <1>1 DEF MemoryCells, InTaken, Lowest, RawInTaken
  <2> QED BY <2>1 DEF HoldsFile
<1> QED BY <1>2, <1>3 DEF HoldsInitrd, HoldsFile

\* What load_pe writes does not touch them if there is room for it.
LEMMA RoomIsFree ==
  ASSUME SpaceInv, NEW offset \in Nat, NEW n \in Nat, FreeRoom(offset, n),
         NEW a \in MemoryCells, InTaken(a)
  PROVE  ~(Image.base + offset <= a /\ a < Image.base + offset + n)
<1>1. a \in Int /\ Image.base \in Nat
  BY ImageTypes, Addresses DEF MemoryCells
<1>2. ASSUME Image.base + offset <= a, a < Image.base + offset + n PROVE FALSE
  <2>1. a \in Cells(Image.base + offset, n)
    BY <1>1, <1>2 DEF Cells
  <2> QED BY <2>1 DEF FreeRoom
<1> QED BY <1>2

LEMMA FitSame ==
  ASSUME UNCHANGED <<machine, files, bootmgr, raw_pe, initrd, initrd_len>>
  PROVE  /\ SectionsFit' <=> SectionsFit
         /\ Image' = Image /\ Lowest' = Lowest /\ BootmgrFile' = BootmgrFile
         /\ RawInTaken' <=> RawInTaken
         /\ HoldsInitrd(ram, initrd)' <=> HoldsInitrd(ram', initrd)
         /\ HoldsFile(ram)' <=> HoldsFile(ram')
         /\ \A i : SectionLoaded(ram, i)' <=> SectionLoaded(ram', i)
<1>1. Image' = Image /\ Lowest' = Lowest /\ BootmgrFile' = BootmgrFile
  BY DEF Image, Lowest, BootmgrFile
<1>2. \A o, n : FreeRoom(o, n)' <=> FreeRoom(o, n)
  BY <1>1 DEF FreeRoom, InTaken, Cells
<1>3. SectionsFit' <=> SectionsFit
  BY <1>1, <1>2 DEF SectionsFit, Minimum, FreeRoom, InTaken, Cells
<1>4. HoldsInitrd(ram, initrd)' <=> HoldsInitrd(ram', initrd)
  BY DEF HoldsInitrd, GoodCell, Prepended
<1>5. (HoldsFile(ram)' <=> HoldsFile(ram')) /\ (RawInTaken' <=> RawInTaken)
  BY <1>1 DEF HoldsFile, RawInTaken
<1>6. \A i : SectionLoaded(ram, i)' <=> SectionLoaded(ram', i)
  BY <1>1 DEF SectionLoaded
<1> QED BY <1>1, <1>3, <1>4, <1>5, <1>6

\* While the sections are loaded.
LEMMA LoadingInv ==
  ASSUME StoreInv, UNCHANGED <<machine, archive, files, bootmgr, raw_pe, initrd, initrd_len>>,
         DOMAIN ram' = MemoryCells, RawInTaken, pc' = "load_sections",
         pe'.base = Image.base, pe'.len \in Nat, pe'.loaded \in 0 .. Len(Image.sections),
         Image.header_len <= pe'.len,
         \A i \in 1 .. pe'.loaded :
           Image.sections[i].virtual + Image.sections[i].virtual_len <= pe'.len,
         SectionsFit =>
           /\ HoldsInitrd(ram', initrd) /\ HoldsFile(ram')
           /\ \A i \in 1 .. pe'.loaded : SectionLoaded(ram', i)
  PROVE  StoreInv'
<1>1. /\ (SectionsFit' <=> SectionsFit) /\ Image' = Image /\ (RawInTaken' <=> RawInTaken)
      /\ HoldsInitrd(ram, initrd)' <=> HoldsInitrd(ram', initrd)
      /\ HoldsFile(ram)' <=> HoldsFile(ram')
      /\ \A i : SectionLoaded(ram, i)' <=> SectionLoaded(ram', i)
  BY FitSame
<1>2. LoadInv'
  BY <1>1 DEF LoadInv, Searching
<1>3. SpaceInv' /\ FileInv'
  BY DEF StoreInv, SpaceInv, IsMember, FileInv, ArchiveStart
<1>4. ImageInv' /\ InitrdInv' /\ RegionsInv'
  BY DEF ImageInv, InitrdInv, RegionsInv, Relocating, Relocated, Calling
<1> QED BY <1>2, <1>3, <1>4 DEF StoreInv

LEMMA HeaderStore ==
  ASSUME StoreInv, PlacedInv, CpuInv, ChoiceInv, load_pe_header
  PROVE  StoreInv'
<1>1. /\ pc = "load_pe" /\ pc' = "load_sections"
      /\ ram' = CopyFrom(ram, Image.base, 0, Image.header_len)
      /\ pe' = [base |-> Image.base, len |-> Image.header_len, loaded |-> 0]
  BY DEF load_pe_header, Goto
<1>2. /\ UNCHANGED <<machine, archive, files, bootmgr, raw_pe, initrd, initrd_len, paging>>
      /\ initrd \in Int /\ initrd_len \in Nat \ {0} /\ raw_pe \in Int /\ RawInTaken
      /\ initrd + initrd_len <= ADDR_4GB
      /\ Tables = Identity /\ DOMAIN ram = MemoryCells
  BY LoadFacts DEF load_pe
<1>3. Image.base \in Nat /\ Image.header_len \in Nat /\ Len(Image.sections) \in Nat /\ SpaceInv
  BY ImageTypes DEF StoreInv
<1>4. DOMAIN ram' = MemoryCells
  BY <1>1, <1>2 DEF CopyFrom, Store
<1>5. ASSUME SectionsFit PROVE HoldsInitrd(ram', initrd) /\ HoldsFile(ram')
  <2>1. Lowest >= 0 /\ FreeRoom(0, Image.header_len)
    BY <1>5 DEF SectionsFit
  <2>2. HoldsInitrd(ram, initrd) /\ HoldsFile(ram)
    BY <1>1, <2>1 DEF StoreInv, LoadInv
  <2>3. raw_pe \in Nat /\ Image.base + Image.header_len <= ADDR_4GB
    BY <1>2, <1>3, <2>1 DEF Lowest, FreeRoom
  <2>4. \A a \in MemoryCells :
          ~(Image.base <= a /\ a < Image.base + Image.header_len) => ram'[a] = ram[a]
    BY <1>1, <1>2, <1>3, <2>3, CopyLow, SMTT(30) DEF CopiedTo
  <2>5. ASSUME NEW a \in MemoryCells, InTaken(a) PROVE ram'[a] = ram[a]
    <3>1. ~(Image.base + 0 <= a /\ a < Image.base + 0 + Image.header_len)
      BY <1>3, <2>1, <2>5, RoomIsFree
    <3>2. Image.base + 0 = Image.base
      BY <1>3
    <3> QED BY <2>4, <3>1, <3>2
  <2> QED BY <1>2, <2>1, <2>2, <2>5, TakenKept
<1>6. pe'.base = Image.base /\ pe'.len = Image.header_len /\ pe'.loaded = 0
  BY <1>1
<1>7. 0 \in 0 .. Len(Image.sections) /\ 1 .. 0 = {}
  BY <1>3
<1> QED BY <1>1, <1>2, <1>3, <1>4, <1>5, <1>6, <1>7, LoadingInv

\* Memory after a section was zeroed and copied: nothing below it or in use has changed.
SectionAt(new, mem, at, virtual_len, raw, raw_len) ==
  /\ \A k \in 1 .. virtual_len :
       new[at + k - 1] = IF k <= raw_len THEN BootmgrFile[raw + k] ELSE Zero
  /\ \A a \in MemoryCells : InTaken(a) => new[a] = mem[a]
  /\ \A a \in MemoryCells : a < at => new[a] = mem[a]

LEMMA SectionCopied ==
  ASSUME SpaceInv, Tables = Identity, raw_pe \in Nat, RawInTaken, HoldsFile(ram),
         initrd \in Int, initrd_len \in Nat, initrd + initrd_len <= ADDR_4GB,
         Lowest >= 0, NEW virtual_len \in Nat, NEW raw \in Nat,
         NEW raw_len \in Nat, raw + Minimum(raw_len, virtual_len) <= BootmgrLen,
         NEW at \in Nat, at + virtual_len <= ADDR_4GB, at + raw_len <= ADDR_4GB,
         \A a \in MemoryCells : InTaken(a) =>
           ~(at <= a /\ a < at + virtual_len) /\ ~(at <= a /\ a < at + raw_len),
         NEW zeros, \A k \in 1 .. virtual_len : zeros[k] = Zero,
         NEW zero, Written(zero, ram, at, virtual_len, zeros),
         NEW new, CopiedTo(new, zero, at, raw, raw_len)
  PROVE  SectionAt(new, ram, at, virtual_len, raw, raw_len)
<1>1. /\ \A a \in MemoryCells : ~(at <= a /\ a < at + raw_len) => new[a] = zero[a]
      /\ \A k \in 1 .. raw_len : raw_pe + raw + k <= ADDR_4GB =>
           new[at + k - 1] = zero[raw_pe + raw + k - 1]
  BY DEF CopiedTo
<1>2. BootmgrLen \in Nat /\ ADDR_4GB \in Nat
  BY Addresses
<1>3. ASSUME NEW a \in MemoryCells, ~(at <= a /\ a < at + virtual_len)
      PROVE  zero[a] = ram[a]
  BY <1>3 DEF Written
<1>4. ASSUME NEW a \in MemoryCells, InTaken(a) PROVE new[a] = ram[a]
  BY <1>1, <1>3, <1>4
<1>5. ASSUME NEW a \in MemoryCells, a < at PROVE new[a] = ram[a]
  <2>1. a \in Int
    BY Addresses DEF MemoryCells
  <2>2. ~(at <= a)
    BY <1>2, <1>5, <2>1
  <2> QED BY <1>1, <1>3, <2>2
<1>6. ASSUME NEW k \in 1 .. virtual_len
      PROVE  new[at + k - 1] = IF k <= raw_len THEN BootmgrFile[raw + k] ELSE Zero
  <2>1. /\ at + k - 1 \in MemoryCells /\ at <= at + k - 1 /\ at + k - 1 < at + virtual_len
        /\ (at + k - 1) - at + 1 = k /\ k \in Nat
    BY <1>2, Addresses DEF MemoryCells
  <2>2. CASE k <= raw_len
    <3> DEFINE f == raw + k
               from == raw_pe + raw + k - 1
    <3>1. f \in 1 .. BootmgrLen
      <4>1. k <= Minimum(raw_len, virtual_len)
        BY <1>2, <2>1, <2>2 DEF Minimum
      <4>2. Minimum(raw_len, virtual_len) \in Nat
        BY <1>2 DEF Minimum
      <4> QED BY <1>2, <2>1, <4>1, <4>2
    <3>2. from = raw_pe + f - 1 /\ raw_pe + raw + k <= ADDR_4GB
      BY <1>2, <2>1, <3>1 DEF RawInTaken
    <3>3. from \in MemoryCells /\ InTaken(from)
      <4> HIDE DEF from, f
      <4> QED BY <1>2, <3>1, <3>2, Addresses DEF MemoryCells, InTaken, Lowest, RawInTaken
    <3>4. k \in 1 .. raw_len
      BY <1>2, <2>1, <2>2
    <3>5. new[at + k - 1] = zero[from]
      BY <1>1, <3>2, <3>4
    <3>6. zero[from] = ram[from]
      BY <1>3, <3>3
    <3>7. ram[raw_pe + f - 1] = BootmgrFile[f]
      BY <3>1 DEF HoldsFile
    <3> QED BY <2>2, <3>2, <3>5, <3>6, <3>7
  <2>3. CASE ~(k <= raw_len)
    <3>1. ~(at + k - 1 < at + raw_len)
      BY <1>2, <2>1, <2>3
    <3>2. new[at + k - 1] = zero[at + k - 1]
      BY <1>1, <2>1, <3>1
    <3>3. zero[at + k - 1] = zeros[k]
      BY <2>1 DEF Written
    <3> QED BY <2>3, <3>2, <3>3
  <2> QED BY <2>2, <2>3
<1> QED BY <1>4, <1>5, <1>6 DEF SectionAt

\* A section that ends below what is written next stays as it is.
LEMMA SectionKept ==
  ASSUME SpaceInv, NEW j \in 1 .. Len(Image.sections), NEW new, NEW end \in Nat,
         SectionLoaded(ram, j), Image.base + end <= ADDR_4GB,
         Image.sections[j].virtual + Image.sections[j].virtual_len <= end,
         \A a \in MemoryCells : a < Image.base + end => new[a] = ram[a]
  PROVE  SectionLoaded(new, j)
<1>1. PICK base \in Nat, virtual \in Nat, virtual_len \in Nat :
        /\ base = Image.base /\ virtual = Image.sections[j].virtual
        /\ virtual_len = Image.sections[j].virtual_len
  BY ImageTypes
<1>2. ASSUME NEW k \in 1 .. virtual_len
      PROVE  new[base + virtual + k - 1] = ram[base + virtual + k - 1]
  <2>1. base + end <= ADDR_4GB /\ virtual + virtual_len <= end
    BY <1>1
  <2>2. base + virtual + k - 1 \in MemoryCells /\ base + virtual + k - 1 < base + end
    BY <2>1, Addresses DEF MemoryCells
  <2> QED BY <1>1, <2>2
<1> QED BY <1>1, <1>2 DEF SectionLoaded

LEMMA SectionStore ==
  ASSUME StoreInv, PlacedInv, CpuInv, ChoiceInv, load_pe_section
  PROVE  StoreInv'
<1>1. /\ pc = "load_sections" /\ pc' = "load_sections" /\ pe.loaded < Len(Image.sections)
      /\ ram' = LoadSection(ram, Image.sections[pe.loaded + 1])
      /\ pe' = [base |-> pe.base, len |-> SectionsEnd(pe.len, Image.sections[pe.loaded + 1]),
                loaded |-> pe.loaded + 1]
  BY DEF load_pe_section, Goto
<1>2. /\ UNCHANGED <<machine, archive, files, bootmgr, raw_pe, initrd, initrd_len, paging>>
      /\ initrd \in Int /\ initrd_len \in Nat /\ raw_pe \in Int /\ RawInTaken
      /\ initrd + initrd_len <= ADDR_4GB
      /\ Tables = Identity /\ DOMAIN ram = MemoryCells
  BY LoadFacts DEF load_pe
<1>3. Image.base \in Nat /\ Image.header_len \in Nat /\ Len(Image.sections) \in Nat /\ SpaceInv
  BY ImageTypes DEF StoreInv
<1>4. /\ pe.base = Image.base /\ pe.len \in Nat /\ pe.loaded \in 0 .. Len(Image.sections)
      /\ Image.header_len <= pe.len
      /\ \A j \in 1 .. pe.loaded :
           Image.sections[j].virtual + Image.sections[j].virtual_len <= pe.len
      /\ SectionsFit =>
           /\ HoldsInitrd(ram, initrd) /\ HoldsFile(ram)
           /\ \A j \in 1 .. pe.loaded : SectionLoaded(ram, j)
  BY <1>1 DEF StoreInv, LoadInv
<1>5. PICK i \in 1 .. Len(Image.sections) : i = pe.loaded + 1 /\ i \in Nat
  BY <1>1, <1>3, <1>4
<1>6. PICK virtual \in Nat, virtual_len \in Nat, raw \in Nat, raw_len \in Nat :
        /\ virtual = Image.sections[i].virtual /\ virtual_len = Image.sections[i].virtual_len
        /\ raw = Image.sections[i].raw /\ raw_len = Image.sections[i].raw_len
  BY <1>3, ImageTypes, SMTT(30)
<1>7. DOMAIN ram' = MemoryCells
  BY <1>1, <1>2 DEF LoadSection, CopyFrom, Store
<1>8. PICK len \in Nat : len = pe'.len /\ len >= pe.len /\ virtual + virtual_len <= len
  <2>1. pe'.len = IF pe.len < virtual + virtual_len THEN virtual + virtual_len ELSE pe.len
    BY <1>1, <1>5, <1>6 DEF SectionsEnd
  <2> QED BY <1>4, <2>1
<1>9. pe'.base = Image.base /\ pe'.loaded = i
  BY <1>1, <1>4, <1>5
<1>10. ASSUME NEW j \in 1 .. i
       PROVE  Image.sections[j].virtual + Image.sections[j].virtual_len <= len
  <2>1. j \in 1 .. Len(Image.sections) /\ (j = i \/ j \in 1 .. pe.loaded)
    BY <1>3, <1>4, <1>5
  <2>2. PICK v \in Nat, n \in Nat :
          v = Image.sections[j].virtual /\ n = Image.sections[j].virtual_len
    BY <1>3, <2>1, ImageTypes
  <2>3. CASE j = i
    BY <1>6, <1>8, <2>3
  <2>4. CASE j \in 1 .. pe.loaded
    <3>1. v + n <= pe.len
      BY <1>4, <2>2, <2>4
    <3>2. v + n <= len
      BY <1>4, <1>8, <3>1
    <3> QED BY <2>2, <3>2
  <2> QED BY <2>1, <2>3, <2>4
<1>11. ASSUME SectionsFit
       PROVE  /\ HoldsInitrd(ram', initrd) /\ HoldsFile(ram')
              /\ \A j \in 1 .. i : SectionLoaded(ram', j)
  <2>1. Lowest >= 0 /\ raw_pe \in Nat
    BY <1>2, <1>11 DEF SectionsFit, Lowest
  <2>2. /\ FreeRoom(virtual, virtual_len) /\ FreeRoom(virtual, raw_len)
        /\ raw + Minimum(raw_len, virtual_len) <= BootmgrLen
        /\ \A j \in 1 .. i - 1 :
             Image.sections[j].virtual + Image.sections[j].virtual_len <= virtual
    BY <1>6, <1>11 DEF SectionsFit
  <2>3. PICK at \in Nat : at = Image.base + virtual
    BY <1>3
  <2>4. PICK zeros, zero :
          /\ Len(zeros) = virtual_len /\ \A k \in 1 .. virtual_len : zeros[k] = Zero
          /\ zero = Store(ram, Identity, at, zeros) /\ ram' = CopyFrom(zero, at, raw, raw_len)
    <3> DEFINE f == [k \in 1 .. virtual_len |-> Zero]
    <3>1. Len(f) = virtual_len /\ \A k \in 1 .. virtual_len : f[k] = Zero
      <4>1. f \in [1 .. virtual_len -> {Zero}]
        OBVIOUS
      <4> QED BY <4>1, CellCount
    <3>2. ram' = CopyFrom(Store(ram, Identity, at, f), at, raw, raw_len)
      BY <1>1, <1>2, <1>5, <1>6, <2>3 DEF LoadSection
    <3> HIDE DEF f
    <3> QED BY <3>1, <3>2
  <2>5. at + virtual_len <= ADDR_4GB /\ at + raw_len <= ADDR_4GB
    BY <2>2, <2>3 DEF FreeRoom
  <2>6. Written(zero, ram, at, virtual_len, zeros)
    <3>1. Written(Store(ram, Identity, at, zeros), ram, at, virtual_len, zeros)
      BY <1>2, <2>4, <2>5, StoreLow
    <3> QED BY <2>4, <3>1
  <2>7. CopiedTo(ram', zero, at, raw, raw_len)
    <3>1. DOMAIN zero = MemoryCells
      BY <2>6 DEF Written
    <3>2. CopiedTo(CopyFrom(zero, at, raw, raw_len), zero, at, raw, raw_len)
      BY <1>2, <2>1, <2>5, <3>1, CopyLow
    <3> QED BY <2>4, <3>2
  <2>8. \A a \in MemoryCells : InTaken(a) =>
          ~(at <= a /\ a < at + virtual_len) /\ ~(at <= a /\ a < at + raw_len)
    BY <1>3, <2>2, <2>3, RoomIsFree
  <2>9. /\ \A k \in 1 .. virtual_len :
             ram'[at + k - 1] = IF k <= raw_len THEN BootmgrFile[raw + k] ELSE Zero
        /\ \A a \in MemoryCells : InTaken(a) => ram'[a] = ram[a]
        /\ \A a \in MemoryCells : a < at => ram'[a] = ram[a]
    <3>1. /\ HoldsFile(ram) /\ raw + Minimum(raw_len, virtual_len) <= BootmgrLen
          /\ \A k \in 1 .. virtual_len : zeros[k] = Zero
      BY <1>4, <1>11, <2>2, <2>4
    <3>2. SectionAt(ram', ram, at, virtual_len, raw, raw_len)
      BY <1>2, <1>3, <2>1, <2>5, <2>6, <2>7, <2>8, <3>1, SectionCopied
    <3> QED BY <3>2 DEF SectionAt
  <2>10. SectionLoaded(ram', i)
    BY <1>6, <2>3, <2>9 DEF SectionLoaded
  <2>11. HoldsInitrd(ram', initrd) /\ HoldsFile(ram')
    BY <1>2, <1>4, <1>11, <2>1, <2>9, TakenKept
  <2>12. ASSUME NEW j \in 1 .. i PROVE SectionLoaded(ram', j)
    <3>1. CASE j = i
      BY <2>10, <3>1
    <3>2. CASE j \in 1 .. pe.loaded
      <4>1. j \in 1 .. Len(Image.sections) /\ j \in 1 .. i - 1 /\ SectionLoaded(ram, j)
        BY <1>3, <1>4, <1>5, <1>11, <3>2
      <4>2. Image.base + virtual <= ADDR_4GB
        BY <1>3, <2>2, Addresses DEF FreeRoom
      <4> QED BY <1>3, <2>2, <2>3, <2>9, <4>1, <4>2, SectionKept
    <3> QED BY <1>4, <1>5, <3>1, <3>2
  <2> QED BY <2>11, <2>12
<1>12. pe'.loaded \in 0 .. Len(Image.sections) /\ Image.header_len <= pe'.len /\ pe'.len \in Nat
  BY <1>3, <1>4, <1>8, <1>9
<1> QED BY <1>1, <1>2, <1>7, <1>8, <1>9, <1>10, <1>11, <1>12, LoadingInv

\* An image that is apart from the initrd and well-formed has room for all that is loaded.
LEMMA RawStore ==
  ASSUME StoreInv, PlacedInv, CpuInv, ChoiceInv, load_pe_raw
  PROVE  StoreInv'
<1>1. /\ pc = "load_sections" /\ pc' = "relocate_high" /\ pe.loaded = Len(Image.sections)
      /\ ram' = CopyFrom(ram, pe.base + RawOffset, 0, BootmgrLen)
      /\ pe' = [base |-> pe.base, len |-> RawOffset + BootmgrLen, loaded |-> pe.loaded]
  BY DEF load_pe_raw, Goto
<1>2. /\ UNCHANGED <<machine, archive, files, bootmgr, raw_pe, initrd, initrd_len, paging,
                     memory_pc>>
      /\ initrd \in Int /\ initrd_len \in Nat \ {0} /\ raw_pe \in Int /\ RawInTaken
      /\ initrd + initrd_len <= ADDR_4GB /\ initrd + initrd_len > 0
      /\ Tables = Identity /\ DOMAIN ram = MemoryCells /\ memory_pc = "placed"
  BY LoadFacts DEF load_pe
<1>3. /\ SpaceInv /\ Len(Image.sections) \in Nat /\ Image.section_align \in Nat \ {0}
      /\ BootmgrLen \in Nat /\ ADDR_4GB \in Nat /\ WimbootLen \in Nat \ {0}
      /\ MemorySize \in Nat /\ ADDR_4GB < MemorySize
  BY ImageTypes, Addresses DEF StoreInv
<1>4. PICK base \in Nat, header_len \in Nat :
        base = Image.base /\ header_len = Image.header_len
  BY <1>3, ImageTypes
<1>5. /\ pe.base = base /\ pe.len \in Nat /\ header_len <= pe.len
      /\ \A i \in 1 .. Len(Image.sections) :
           Image.sections[i].virtual + Image.sections[i].virtual_len <= pe.len
      /\ SectionsFit =>
           /\ HoldsInitrd(ram, initrd) /\ HoldsFile(ram)
           /\ \A i \in 1 .. Len(Image.sections) : SectionLoaded(ram, i)
  BY <1>1, <1>4 DEF StoreInv, LoadInv
<1>6. PICK room \in Nat : room = RawOffset /\ pe.len <= room
  BY <1>3, <1>5, RoundedUp DEF RawOffset
<1>7. /\ pe'.base = base /\ pe'.len = room + BootmgrLen
  BY <1>1, <1>5, <1>6
<1>8. RoomForSections' = room
  BY <1>3, <1>7 DEF RoomForSections
<1>9. Image' = Image /\ BootmgrFile' = BootmgrFile
      /\ (HoldsInitrd(ram, initrd)' <=> HoldsInitrd(ram', initrd))
      /\ \A i : SectionLoaded(ram, i)' <=> SectionLoaded(ram', i)
  BY <1>2, FitSame
<1>10. ASSUME NEW i \in 1 .. Len(Image.sections)
       PROVE  Image.sections[i].virtual + Image.sections[i].virtual_len <= room
  <2>1. PICK v \in Nat, n \in Nat :
          v = Image.sections[i].virtual /\ n = Image.sections[i].virtual_len
    BY <1>3, ImageTypes
  <2>2. v + n <= pe.len
    BY <1>5, <2>1
  <2>3. v + n <= room
    BY <1>5, <1>6, <2>2
  <2> QED BY <2>1, <2>3
<1>11. DOMAIN ram' = MemoryCells
  BY <1>1, <1>2 DEF CopyFrom, Store
<1>12. SpaceInv' /\ FileInv'
  BY <1>2, <1>11 DEF StoreInv, SpaceInv, IsMember, FileInv, ArchiveStart
<1>13. ASSUME Good' PROVE ImageLoaded(ram)' /\ HoldsInitrd(ram, initrd)'
  <2>1. /\ base + room + BootmgrLen <= ADDR_4GB
        /\ (Lowest .. initrd + initrd_len - 1) \intersect
             (Cells(base, room + BootmgrLen) \union Cells(0, WimbootLen)) = {}
    <3>1. Apart' /\ WellFormedImage'
      BY <1>13 DEF Good
    <3>2. pe'.base + pe'.len <= ADDR_4GB
      BY <3>1 DEF WellFormedImage
    <3>3. (Lowest .. initrd + initrd_len - 1) \intersect
             (Cells(pe'.base, pe'.len) \union Cells(0, WimbootLen)) = {}
      BY <1>2, <3>1 DEF Apart, Lowest, Cells
    <3> QED BY <1>3, <1>7, <3>2, <3>3
  <2>2. \A i \in 1 .. Len(Image.sections) :
          LET s == Image.sections[i]
          IN  /\ s.virtual + s.raw_len <= room
              /\ s.raw + Minimum(s.raw_len, s.virtual_len) <= BootmgrLen
              /\ \A j \in 1 .. i - 1 :
                   Image.sections[j].virtual + Image.sections[j].virtual_len <= s.virtual
    BY <1>8, <1>9, <1>13 DEF Good, WellFormedImage
  <2>3. Lowest \in Nat /\ Lowest <= initrd /\ Lowest <= raw_pe
    <3>1. Lowest \in Int /\ Lowest <= initrd /\ Lowest <= raw_pe
      BY <1>2 DEF Lowest
    <3>2. CASE Lowest < 0
      <4>1. 0 \in Lowest .. initrd + initrd_len - 1 /\ 0 \in Cells(0, WimbootLen)
        BY <1>2, <1>3, <3>1, <3>2 DEF Cells
      <4> QED BY <2>1, <4>1
    <3> QED BY <3>1, <3>2
  <2>4. ASSUME NEW a \in MemoryCells, InTaken(a)
        PROVE  ~(base <= a /\ a < base + room + BootmgrLen)
    <3>1. a \in Int /\ a \in Lowest .. initrd + initrd_len - 1
      BY <1>2, <1>3, <2>3, <2>4 DEF MemoryCells, InTaken
    <3>2. a \notin Cells(base, room + BootmgrLen)
      BY <2>1, <3>1
    <3> QED BY <1>3, <3>1, <3>2 DEF Cells
  <2>5. ASSUME NEW offset \in Nat, NEW n \in Nat, offset + n <= room PROVE FreeRoom(offset, n)
    <3>1. Image.base + offset + n <= ADDR_4GB
      BY <1>3, <1>4, <2>1, <2>5, SMTT(30)
    <3>2. ASSUME NEW a \in Cells(Image.base + offset, n) PROVE ~InTaken(a)
      <4>1. a \in MemoryCells /\ base <= a /\ a < base + room + BootmgrLen
        <5>1. a \in base + offset .. base + offset + n - 1
          BY <1>4, <3>2 DEF Cells
        <5> QED BY <1>3, <2>1, <2>5, <5>1 DEF MemoryCells
      <4> QED BY <2>4, <4>1
    <3> QED BY <3>1, <3>2 DEF FreeRoom
  <2>6. FreeRoom(0, Image.header_len)
    <3>1. 0 + header_len <= room
      BY <1>5, <1>6
    <3>2. FreeRoom(0, header_len)
      BY <2>5, <3>1
    <3> QED BY <1>4, <3>2
  <2>7. ASSUME NEW i \in 1 .. Len(Image.sections)
        PROVE  /\ FreeRoom(Image.sections[i].virtual, Image.sections[i].virtual_len)
               /\ FreeRoom(Image.sections[i].virtual, Image.sections[i].raw_len)
    BY <1>3, <1>10, <2>2, <2>5, ImageTypes
  <2>8. SectionsFit
    BY <2>2, <2>3, <2>6, <2>7 DEF SectionsFit
  <2>9. /\ HoldsInitrd(ram, initrd) /\ HoldsFile(ram)
        /\ \A i \in 1 .. Len(Image.sections) : SectionLoaded(ram, i)
    BY <1>5, <2>8
  <2>10. CopiedTo(ram', ram, base + room, 0, BootmgrLen)
    <3>1. PICK to \in Nat : to = base + room /\ to + BootmgrLen <= ADDR_4GB
      BY <1>3, <2>1
    <3>2. raw_pe \in Nat
      BY <1>2, <2>3
    <3>3. CopiedTo(CopyFrom(ram, to, 0, BootmgrLen), ram, to, 0, BootmgrLen)
      BY <1>2, <1>3, <3>1, <3>2, CopyLow
    <3> QED BY <1>1, <1>5, <1>6, <3>1, <3>3
  <2>11. ASSUME NEW a \in MemoryCells, InTaken(a) \/ a < base + room PROVE ram'[a] = ram[a]
    <3>1. a \in Int
      BY <1>3 DEF MemoryCells
    <3>2. ~(base + room <= a /\ a < base + room + BootmgrLen)
      BY <1>3, <2>4, <2>11, <3>1
    <3> QED BY <2>10, <3>2 DEF CopiedTo
  <2>12. HoldsInitrd(ram', initrd)
    BY <1>2, <2>3, <2>9, <2>11, TakenKept
  <2>13. ASSUME NEW i \in 1 .. Len(Image.sections) PROVE SectionLoaded(ram', i)
    <3>1. Image.base + room <= ADDR_4GB
      BY <1>3, <1>4, <2>1
    <3>2. \A a \in MemoryCells : a < Image.base + room => ram'[a] = ram[a]
      BY <1>4, <2>11
    <3> QED BY <1>3, <1>10, <2>9, <3>1, <3>2, SectionKept
  <2>14. ASSUME NEW k \in 1 .. BootmgrLen PROVE ram'[base + room + k - 1] = BootmgrFile[k]
    <3>1. raw_pe + 0 + k <= ADDR_4GB /\ raw_pe + 0 + k - 1 = raw_pe + k - 1
      BY <1>2, <1>3, <2>3 DEF RawInTaken
    <3>2. ram'[base + room + k - 1] = ram[raw_pe + 0 + k - 1]
      BY <2>10, <3>1 DEF CopiedTo
    <3> QED BY <2>9, <3>1, <3>2 DEF HoldsFile
  <2>15. ImageLoaded(ram)'
    BY <1>7, <1>8, <1>9, <2>13, <2>14 DEF ImageLoaded
  <2> QED BY <1>9, <2>12, <2>15
<1>14. LoadInv' /\ RegionsInv'
  BY <1>1 DEF LoadInv, RegionsInv, Searching, Calling
<1>15. ImageInv'
  <2>1. pe'.len \in Nat
    BY <1>3, <1>7
  <2> QED BY <1>4, <1>7, <1>8, <1>9, <1>10, <1>13, <2>1 DEF ImageInv
<1>16. InitrdInv'
  <2>1. memory_pc' # "copy" /\ ~Relocated'
    BY <1>1, <1>2 DEF Relocated, Calling
  <2> QED BY <1>13, <2>1 DEF InitrdInv
<1> QED BY <1>12, <1>14, <1>15, <1>16 DEF StoreInv

----------------------------------------------------------------------------
(* Moving the initrd above 4GB *)

LEMMA GoodSame ==
  ASSUME UNCHANGED <<machine, pe, raw_pe, initrd, initrd_len, paging>>
  PROVE  Good' <=> Good
BY DEF Good, Apart, WellFormedImage, Image, RoomForSections, Minimum, Cells

\* The steps of relocate_memory_high that do not write to memory.
LEMMA HighFrame ==
  ASSUME StoreInv, UNCHANGED coreVars, Relocating, pc' \in {"relocate_high", "describe"},
         InitrdInv'
  PROVE  StoreInv'
<1>1. UNCHANGED pe
  BY DEF coreVars
<1>2. SpaceInv' /\ FileInv'
  BY CoreSame DEF StoreInv
<1>3. LoadInv' /\ RegionsInv'
  BY DEF LoadInv, RegionsInv, Searching, Calling
<1>4. /\ pe.base = Image.base /\ pe.len \in Nat /\ RoomForSections \in Nat
      /\ \A i \in 1 .. Len(Image.sections) :
           Image.sections[i].virtual + Image.sections[i].virtual_len <= RoomForSections
      /\ Good => ImageLoaded(ram)
  BY DEF StoreInv, ImageInv
<1>5. /\ (Good' <=> Good) /\ (ImageLoaded(ram)' <=> ImageLoaded(ram))
      /\ Image' = Image /\ RoomForSections' = RoomForSections
  BY CoreSame
<1>6. ImageInv'
  BY <1>1, <1>4, <1>5 DEF ImageInv
<1> QED BY <1>2, <1>3, <1>6 DEF StoreInv

\* The initrd of a good boot lies below 4GB, as an address.
LEMMA InitrdLow ==
  ASSUME StoreInv, PlacedInv, ChoiceInv, Relocating \/ Relocated, Good
  PROVE  /\ initrd \in Nat /\ initrd_len \in Nat \ {0} /\ initrd + initrd_len <= ADDR_4GB
         /\ paging => initrd >= COPY_WINDOW + PAGE_SIZE_2MB
<1>1. initrd_len # 0 /\ PlaceTypes /\ SpaceInv
  BY InMachine DEF StoreInv
<1>2. initrd \in Nat
  BY <1>1, LowestNat DEF Good
<1> QED BY <1>1, <1>2, Addresses DEF PlaceTypes, SpaceInv, Good, Apart

\* Where the initrd is not moved it is mapped to where it is.
LEMMA NotMoved ==
  ASSUME StoreInv, PlacedInv, ChoiceInv, Relocating, Good, pd = Identity,
         NEW j \in 0 .. initrd_len - 1
  PROVE  Translate(pd, initrd + j) = initrd + j
<1>1. initrd \in Nat /\ initrd_len \in Nat /\ initrd + initrd_len <= ADDR_4GB
  BY InitrdLow
<1>2. initrd + j \in 0 .. ADDR_4GB - 1
  BY <1>1, Addresses
<1> QED BY <1>2, IdentityAt

\* Addresses above the copy window are not in its page.
LEMMA AboveWindow ==
  ASSUME NEW v \in Int, v >= COPY_WINDOW + PAGE_SIZE_2MB
  PROVE  v \div PAGE_SIZE_2MB # 1
<1> DEFINE P == PAGE_SIZE_2MB
           q == v \div P
<1>1. P \in Nat \ {0} /\ COPY_WINDOW = P
  BY MemoryAssumption
<1>2. q \in Int /\ v % P \in 0 .. P - 1 /\ v = P * q + (v % P)
  BY <1>1, DivMod
<1> HIDE DEF q, P
<1>3. CASE q = 1
  <2>1. v = P + (v % P)
    BY <1>1, <1>2, <1>3
  <2> QED BY <1>1, <1>2, <2>1 DEF P
<1> QED BY <1>3 DEF q, P

LEMMA SearchHighStore ==
  ASSUME StoreInv, PlacedInv, ChoiceInv, RelocateHigh, StartHigh \/ NextHigh \/ TryHigh
  PROVE  StoreInv'
<1>1. /\ pc = "relocate_high"
      /\ pc' = IF memory_pc' = "relocated" THEN "describe" ELSE "relocate_high"
      /\ UNCHANGED <<machine, archive, files, bootmgr, pe, raw_pe>>
  BY DEF RelocateHigh, Goto, MainUnchanged, cpioVars
<1>2. /\ UNCHANGED <<ram, pd, paging, initrd, initrd_len>>
      /\ memory_pc \in {"placed", "high", "high_try"}
      /\ \/ memory_pc' \in {"high", "high_try"}
         \/ memory_pc' = "relocated" /\ initrd_phys' = initrd
         \/ memory_pc' = "copy" /\ copied' = 0
  BY DEF StartHigh, NextHigh, TryHigh, givenVars
<1>3. Relocating /\ UNCHANGED coreVars /\ pc' \in {"relocate_high", "describe"}
  BY <1>1, <1>2 DEF Relocating, coreVars
<1>4. InitrdInv'
  <2> SUFFICES ASSUME Good' PROVE InitrdInv'
    BY DEF InitrdInv
  <2>1. Good /\ HoldsInitrd(ram, initrd)
    BY <1>1, <1>2, <1>3, GoodSame DEF StoreInv, InitrdInv
  <2>2. HoldsInitrd(ram, initrd)'
    BY <1>3, <2>1, CoreSame
  <2>3. paging => pd = Identity
    BY <1>2 DEF PlacedInv, MemoryInv, PageInv
  <2>4. CASE memory_pc' \in {"high", "high_try"}
    <3>1. ~Relocated' /\ memory_pc' # "copy"
      BY <1>1, <2>4 DEF Relocated, Calling
    <3> QED BY <2>2, <3>1 DEF InitrdInv
  <2>5. CASE memory_pc' = "relocated" /\ initrd_phys' = initrd
    <3>1. ~Relocating'
      BY <1>1, <2>5 DEF Relocating
    <3>2. HoldsInitrd(ram, initrd_phys)'
      BY <1>2, <2>2, <2>5 DEF HoldsInitrd
    <3>3. ASSUME paging' PROVE \A j \in 0 .. initrd_len' - 1 : Translate(pd', initrd' + j) = initrd_phys' + j
      BY <1>2, <1>3, <2>1, <2>3, <2>5, <3>3, NotMoved
    <3> QED BY <3>1, <3>2, <3>3 DEF InitrdInv, Translate
  <2>6. CASE memory_pc' = "copy" /\ copied' = 0
    <3>1. paging
      BY <2>6 DEF StartHigh, NextHigh, TryHigh, PlacedInv, MemoryInv, HighInv
    <3>2. initrd_len \in Nat
      BY DEF PlacedInv, MemoryInv, PlaceTypes
    <3>3. ASSUME NEW j \in 0 .. initrd_len - 1
          PROVE  GoodCell(j, ram[initrd + j]) /\ Translate(pd, initrd + j) = initrd + j
      BY <1>3, <2>1, <2>3, <3>1, NotMoved DEF HoldsInitrd
    <3>4. CopyInv'
      <4>1. ASSUME NEW j \in 0 .. initrd_len - 1
            PROVE  CopyCell(j)'
        <5>1. ~(j < copied') /\ CopyAt(j)' = initrd + j
          BY <1>2, <2>6, <3>2 DEF CopyAt
        <5> QED BY <1>1, <1>2, <3>3, <5>1 DEF CopyCell, GoodCell, Prepended, Translate
      <4>2. \A j \in 0 .. initrd_len' - 1 : CopyCell(j)'
        BY <1>2, <4>1
      <4>3. copied' <= initrd_len' /\ copied' = 0
        BY <1>2, <2>6, <3>2
      <4> QED BY <4>2, <4>3 DEF CopyInv
    <3>5. ~Relocated'
      BY <1>1, <2>6 DEF Relocated, Calling
    <3> QED BY <2>6, <3>4, <3>5 DEF InitrdInv
  <2> QED BY <1>2, <2>4, <2>5, <2>6
<1> QED BY <1>3, <1>4, HighFrame

\* Splitting an address into a page and an offset.
LEMMA Split ==
  ASSUME NEW P \in Nat \ {0}, NEW v \in Int
  PROVE  \E q \in Int, r \in 0 .. P - 1 : q = v \div P /\ r = v % P /\ v = P * q + r
BY DivMod

LEMMA WithinPage ==
  ASSUME NEW P \in Nat \ {0}, NEW v \in Int, NEW k \in Nat, (v % P) + k < P
  PROVE  (v + k) \div P = v \div P /\ (v + k) % P = (v % P) + k
<1>1. PICK q \in Int, r \in 0 .. P - 1 : q = v \div P /\ r = v % P /\ v = P * q + r
  BY Split
<1>2. PICK w \in Int : w = v + k
  OBVIOUS
<1>3. P * q <= w /\ w < P * q + P /\ w - P * q = r + k
  BY <1>1, <1>2
<1>4. w \div P = q /\ w % P = w - P * q
  BY <1>3, QuotientIs
<1> QED BY <1>1, <1>2, <1>3, <1>4

LEMMA AcrossPages ==
  ASSUME NEW P \in Nat \ {0}, NEW u \in Int, NEW w \in Int, NEW v \in Int,
         u < w, w <= v, w % P = 0
  PROVE  u \div P # v \div P
<1>1. PICK a \in Int, r \in 0 .. P - 1 : a = u \div P /\ r = u % P /\ u = P * a + r
  BY Split
<1>2. PICK b \in Int, s \in 0 .. P - 1 : b = v \div P /\ s = v % P /\ v = P * b + s
  BY Split
<1>3. PICK c \in Int, z \in 0 .. P - 1 : c = w \div P /\ z = w % P /\ w = P * c + z
  BY Split
<1>4. ASSUME a = b PROVE FALSE
  <2>1. P * a < P * c /\ P * c < P * a + P
    BY <1>1, <1>2, <1>4, <1>3
  <2>2. ~(c <= a)
    <3>1. c <= a => P * c <= P * a
      BY TimesKeepsOrder
    <3> QED BY <2>1, <3>1
  <2>3. P * (a + 1) <= P * c
    BY <2>2, TimesKeepsOrder
  <2>4. P * (a + 1) = P * a + P
    OBVIOUS
  <2> QED BY <2>1, <2>3, <2>4
<1> QED BY <1>1, <1>2, <1>4

\* The page of a place with the same offset in its page.
LEMMA SameOffset ==
  ASSUME NEW P \in Nat \ {0}, NEW a \in Int, NEW d \in Int, NEW c \in Int, (d - a) % P = 0
  PROVE  Down(d + c, P) + ((a + c) % P) = d + c /\ Down(d + c, P) \in Int
<1>1. PICK m \in Int, z \in 0 .. P - 1 :
        m = (d - a) \div P /\ z = (d - a) % P /\ d - a = P * m + z
  <2>1. d - a \in Int
    OBVIOUS
  <2> QED BY <2>1, Split
<1>2. PICK q \in Int, r \in 0 .. P - 1 :
        q = (a + c) \div P /\ r = (a + c) % P /\ a + c = P * q + r
  <2>1. a + c \in Int
    OBVIOUS
  <2> QED BY <2>1, Split
<1>3. P * m \in Int /\ P * q \in Int /\ P * (q + m) = P * q + P * m
  OBVIOUS
<1>4. d + c = P * (q + m) + r /\ P * (q + m) \in Int
  BY <1>1, <1>2, <1>3
<1>5. P * (q + m) <= d + c /\ d + c < P * (q + m) + P
  BY <1>4
<1>6. (d + c) \div P = q + m
  <2>1. d + c \in Int /\ q + m \in Int
    OBVIOUS
  <2> QED BY <1>5, <2>1, QuotientIs
<1> QED BY <1>2, <1>4, <1>6 DEF Down

\* The image lies in its own cells, so it is complete as long as these are kept.
LEMMA ImageKept ==
  ASSUME SpaceInv, pe.base = Image.base, pe.len \in Nat, RoomForSections \in Nat,
         \A i \in 1 .. Len(Image.sections) :
           Image.sections[i].virtual + Image.sections[i].virtual_len <= RoomForSections,
         WellFormedImage, NEW mem, NEW new, ImageLoaded(mem),
         \A a \in MemoryCells : pe.base <= a /\ a < pe.base + pe.len => new[a] = mem[a]
  PROVE  ImageLoaded(new)
<1>1. /\ Image.base \in Nat /\ BootmgrLen \in Nat /\ ADDR_4GB \in Nat /\ MemorySize \in Nat
      /\ ADDR_4GB < MemorySize /\ pe.base + pe.len <= ADDR_4GB
      /\ pe.len = RoomForSections + BootmgrLen
  BY ImageTypes, Addresses DEF WellFormedImage, RoomForSections
<1>2. PICK base \in Nat, room \in Nat :
        base = pe.base /\ base = Image.base /\ room = RoomForSections
        /\ pe.len = room + BootmgrLen
  BY <1>1
<1>3. ASSUME NEW n \in 0 .. room + BootmgrLen - 1 PROVE new[base + n] = mem[base + n]
  <2>1. base + n \in MemoryCells /\ base <= base + n /\ base + n < base + (room + BootmgrLen)
    BY <1>1, <1>2 DEF MemoryCells
  <2> QED BY <1>2, <2>1
<1>4. ASSUME NEW k \in 1 .. BootmgrLen
      PROVE  new[base + room + k - 1] = BootmgrFile[k]
  <2>1. room + (k - 1) \in 0 .. room + BootmgrLen - 1
        /\ base + (room + (k - 1)) = base + room + k - 1
    BY <1>1
  <2>2. new[base + room + k - 1] = mem[base + room + k - 1]
    BY <1>3, <2>1
  <2> QED BY <1>2, <2>2 DEF ImageLoaded
<1>5. ASSUME NEW i \in 1 .. Len(Image.sections) PROVE SectionLoaded(new, i)
  <2>1. PICK v \in Nat, n \in Nat :
          v = Image.sections[i].virtual /\ n = Image.sections[i].virtual_len
    BY ImageTypes
  <2>2. v + n <= room
    BY <1>2, <2>1
  <2>3. ASSUME NEW k \in 1 .. n PROVE new[base + v + k - 1] = mem[base + v + k - 1]
    <3>1. v + (k - 1) \in 0 .. room + BootmgrLen - 1 /\ base + (v + (k - 1)) = base + v + k - 1
      BY <1>1, <2>2, SMTT(30)
    <3> QED BY <1>3, <3>1
  <2>4. SectionLoaded(mem, i)
    BY DEF ImageLoaded
  <2> QED BY <1>2, <2>1, <2>3, <2>4 DEF SectionLoaded
<1> QED BY <1>2, <1>4, <1>5 DEF ImageLoaded

\* The last step of the copy: the window shows its own page again.
LEMMA CopiedStore ==
  ASSUME StoreInv, PlacedInv, ChoiceInv, RelocateHigh, Copied
  PROVE  StoreInv'
<1>1. /\ pc = "relocate_high" /\ pc' = "describe"
      /\ UNCHANGED <<machine, archive, files, bootmgr, pe, raw_pe>>
  BY DEF RelocateHigh, Goto, MainUnchanged, cpioVars, Copied
<1>2. /\ UNCHANGED <<ram, paging, initrd, initrd_len>>
      /\ memory_pc = "copy" /\ copied = initrd_len /\ initrd_phys' = dest
      /\ pd' = [pd EXCEPT ![1] = COPY_WINDOW]
  BY WindowPage DEF Copied, givenVars, map_page
<1>3. Relocating /\ UNCHANGED coreVars /\ pc' \in {"relocate_high", "describe"}
  BY <1>1, <1>2 DEF Relocating, coreVars
<1>4. InitrdInv'
  <2> SUFFICES ASSUME Good' PROVE InitrdInv'
    BY DEF InitrdInv
  <2>1. Good /\ CopyInv
    BY <1>2, <1>3, GoodSame DEF StoreInv, InitrdInv, coreVars
  <2>2. paging /\ pd \in [Pages -> Int]
    BY <1>2 DEF PlacedInv, MemoryInv, HighInv, PlaceTypes
  <2>3. /\ initrd \in Nat /\ initrd_len \in Nat /\ initrd >= COPY_WINDOW + PAGE_SIZE_2MB
        /\ initrd + initrd_len <= ADDR_4GB
    BY <1>3, <2>1, <2>2, InitrdLow
  <2>4. ASSUME NEW j \in 0 .. initrd_len - 1
        PROVE  GoodCell(j, ram[dest + j]) /\ Translate(pd', initrd + j) = dest + j
    <3>1. CopyAt(j) = dest + j
      BY <1>2, <2>3 DEF CopyAt
    <3>2. GoodCell(j, ram[dest + j]) /\ Translate(pd, initrd + j) = dest + j
      BY <2>1, <3>1 DEF CopyInv, CopyCell
    <3>3. initrd + j \in 0 .. ADDR_4GB - 1 /\ initrd + j \in Int
          /\ initrd + j >= COPY_WINDOW + PAGE_SIZE_2MB
      BY <2>3, MemoryAssumption
    <3>4. (initrd + j) \div PAGE_SIZE_2MB # 1 /\ (initrd + j) \div PAGE_SIZE_2MB \in Pages
      BY <3>3, PageOf, AboveWindow
    <3> QED BY <1>2, <2>2, <3>2, <3>4 DEF Translate
  <2>5. HoldsInitrd(ram, initrd_phys)'
    <3>1. ASSUME NEW j \in 0 .. initrd_len' - 1 PROVE GoodCell(j, ram[initrd_phys + j])'
      BY <1>1, <1>2, <2>4, <3>1 DEF GoodCell, Prepended
    <3> QED BY <3>1 DEF HoldsInitrd
  <2>6. \A j \in 0 .. initrd_len' - 1 : Translate(pd, initrd + j)' = initrd_phys' + j
    BY <1>2, <2>4 DEF Translate
  <2>7. ~Relocating'
    BY <1>1 DEF Relocating
  <2> QED BY <2>5, <2>6, <2>7 DEF InitrdInv
<1> QED BY <1>3, <1>4, HighFrame

\* A place above 4GB is in memory.
LEMMA PlaceHigh ==
  ASSUME PlaceTypes, initrd_len # 0, NEW p \in HighPlaces
  PROVE  p \in Nat /\ p >= ADDR_4GB /\ p + initrd_len <= MemorySize
<1>1. /\ ADDR_4GB \in Nat /\ MemorySize \in Nat /\ initrd_len \in Nat \ {0}
      /\ p \in ADDR_4GB .. MemorySize - 1
      /\ \E r \in Reported : Cells(p, initrd_len) \subseteq Cells(r.start, r.len)
  BY Addresses DEF HighPlaces, PlaceTypes
<1>2. PICK i \in 1 .. Len(e820) :
        IsRam(e820[i]) /\ Cells(p, initrd_len) \subseteq Cells(e820[i].start, e820[i].len)
  BY <1>1 DEF Reported
<1>3. e820[i] \in Entries /\ e820[i].start + e820[i].len <= MemorySize
  BY <1>2 DEF PlaceTypes, IsMemoryMap
<1>4. PICK start \in Nat, len \in Nat : start = e820[i].start /\ len = e820[i].len
  BY <1>3 DEF Entries
<1>5. p \in Int /\ start \in Int /\ Cells(p, initrd_len) \subseteq Cells(start, len)
  BY <1>1, <1>2, <1>4
<1>6. p + initrd_len <= start + len
  <2>1. PICK n \in Nat \ {0} : n = initrd_len
    BY <1>1
  <2>2. p + n <= start + len
    BY <1>5, <2>1, CellsWithin
  <2> QED BY <2>1, <2>2
<1> QED BY <1>1, <1>3, <1>4, <1>6, SMTT(30)

\* What copying one fragment does: its cells are found at the new place, by their addresses
\* too, and all other cells and addresses are left alone.
FragmentMoved(frag) ==
  /\ copied' = copied + frag /\ copied + frag <= initrd_len
  /\ copied + frag < initrd_len => (initrd + copied + frag) % PAGE_SIZE_2MB = 0
  /\ \A a \in MemoryCells :
       ~(dest + copied <= a /\ a < dest + copied + frag) => ram'[a] = ram[a]
  /\ \A k \in 1 .. frag : ram'[dest + copied + k - 1] = ram[initrd + copied + k - 1]
  /\ \A j \in 0 .. initrd_len - 1 :
       Translate(pd', initrd + j)
         = IF copied <= j /\ j < copied + frag THEN dest + j ELSE Translate(pd, initrd + j)

LEMMA CopyFragment ==
  ASSUME StoreInv, PlacedInv, ChoiceInv, Relocating, Good, CopyPage
  PROVE  \E frag \in Nat : FragmentMoved(frag)
<1> DEFINE P == PAGE_SIZE_2MB
<1>1. /\ P \in Nat \ {0} /\ COPY_WINDOW = P /\ ADDR_4GB \in Nat /\ MemorySize \in Nat
      /\ COPY_WINDOW < ADDR_4GB /\ COPY_WINDOW \in Nat
  BY MemoryAssumption
<1>2. memory_pc = "copy" /\ copied < initrd_len /\ paging /\ dest \in HighPlaces /\ CopyInv
  BY DEF CopyPage, PlacedInv, MemoryInv, HighInv, StoreInv, InitrdInv
<1>3. /\ initrd \in Nat /\ initrd_len \in Nat \ {0} /\ initrd + initrd_len <= ADDR_4GB
      /\ initrd >= COPY_WINDOW + P /\ copied \in Nat /\ pd \in [Pages -> Int]
      /\ PlaceTypes /\ DOMAIN ram = MemoryCells
  BY <1>2, InitrdLow DEF PlacedInv, MemoryInv, PlaceTypes, StoreInv, SpaceInv
<1>4. /\ dest \in Nat /\ dest >= ADDR_4GB /\ dest + initrd_len <= MemorySize
      /\ (dest - initrd) % P = 0
  BY <1>2, <1>3, PlaceHigh DEF HighPlaces
<1>5. PICK data \in Nat : data = initrd + copied
  BY <1>3
<1>6. PICK q \in Int, offset \in 0 .. P - 1 :
        q = data \div P /\ offset = data % P /\ data = P * q + offset
  BY <1>1, Split
<1>7. PICK frag \in Nat : frag = Minimum(P - offset, initrd_len - copied)
  <2>1. P - offset \in Nat /\ initrd_len - copied \in Nat
    BY <1>1, <1>2, <1>3
  <2>2. Minimum(P - offset, initrd_len - copied) \in Nat
    BY <2>1 DEF Minimum
  <2> QED BY <2>2
<1>8. /\ 0 < frag /\ offset + frag <= P /\ copied + frag <= initrd_len
      /\ copied + frag < initrd_len => offset + frag = P
  BY <1>1, <1>2, <1>3, <1>7 DEF Minimum
<1>9. PICK page \in Int : page = Down(dest + copied, P) /\ page + offset = dest + copied
  <2>1. Down(dest + copied, P) + ((initrd + copied) % P) = dest + copied
        /\ Down(dest + copied, P) \in Int
    <3>1. initrd \in Int /\ dest \in Int /\ copied \in Int
      BY <1>3, <1>4
    <3> QED BY <1>1, <1>4, <3>1, SameOffset
  <2>2. (initrd + copied) % P = offset
    BY <1>5, <1>6
  <2>3. Down(dest + copied, P) + offset = dest + copied
    BY <2>1, <2>2
  <2> QED BY <2>1, <2>3
<1>10. PICK window : window = [pd EXCEPT ![1] = page]
  OBVIOUS
<1>11. /\ copied' = copied + frag
       /\ ram' = Store(ram, window, COPY_WINDOW + offset, Load(ram, window, data, frag))
       /\ pd' = [window EXCEPT ![q] = page]
  BY <1>5, <1>6, <1>7, <1>9, <1>10, WindowPage DEF CopyPage, map_page
<1> HIDE DEF P
<1>12. 1 \in Pages /\ q \in Pages
  <2>1. COPY_WINDOW \in 0 .. ADDR_4GB - 1 /\ data \in 0 .. ADDR_4GB - 1
    BY <1>1, <1>2, <1>3, <1>5
  <2> QED BY <1>6, <2>1, PageOf, WindowPage DEF P
<1>13. ASSUME NEW j \in 0 .. initrd_len - 1
       PROVE  /\ (initrd + j) \div P # 1 /\ (initrd + j) \div P \in Pages
              /\ initrd + j \in Nat
  <2>1. initrd + j \in 0 .. ADDR_4GB - 1 /\ initrd + j \in Int /\ initrd + j \in Nat
        /\ initrd + j >= COPY_WINDOW + P
    BY <1>1, <1>3
  <2> QED BY <2>1, PageOf, AboveWindow DEF P
\* The fragment lies in one page.
<1>14. ASSUME NEW k \in 0 .. frag - 1
       PROVE  /\ (data + k) \div P = q /\ (data + k) % P = offset + k
              /\ (COPY_WINDOW + offset + k) \div P = 1 /\ (COPY_WINDOW + offset + k) % P = offset + k
  <2>1. offset + k < P /\ k \in Nat /\ data \in Int
    BY <1>1, <1>8
  <2>2. (data + k) \div P = q /\ (data + k) % P = offset + k
    BY <1>1, <1>6, <2>1, WithinPage
  <2>3. PICK w \in Int : w = COPY_WINDOW + offset + k
    BY <1>1
  <2>4. P * 1 <= w /\ w < P * 1 + P /\ w - P * 1 = offset + k
    BY <1>1, <2>1, <2>3
  <2>5. w \div P = 1 /\ w % P = w - P * 1
    BY <1>1, <2>4, QuotientIs
  <2> QED BY <2>2, <2>3, <2>4, <2>5
\* No other cell of the initrd does.
<1>15. ASSUME NEW j \in 0 .. initrd_len - 1, ~(copied <= j /\ j < copied + frag)
       PROVE  (initrd + j) \div P # q
  <2>1. data \in Int /\ initrd + j \in Int
    BY <1>3
  <2>2. CASE j < copied
    <3>1. data % P = 0 /\ initrd + j < data
      BY <1>2, <1>3, <1>5, <2>2 DEF CopyInv, P
    <3> QED BY <1>1, <1>6, <2>1, <3>1, AcrossPages
  <2>3. CASE copied + frag <= j
    <3>1. PICK w \in Int : w = data + frag
      BY <1>5
    <3>2. w = P * q + P /\ data < w /\ w <= initrd + j
      BY <1>1, <1>3, <1>5, <1>6, <1>8, <2>3, <3>1
    <3>3. P * (q + 1) = P * q + P /\ q + 1 \in Int
      BY <1>1
    <3>4. P * (q + 1) <= w /\ w < P * (q + 1) + P /\ w - P * (q + 1) = 0
      BY <1>1, <3>2, <3>3
    <3>5. w % P = 0
      BY <1>1, <3>3, <3>4, QuotientIs
    <3> QED BY <1>1, <1>6, <2>1, <3>2, <3>5, AcrossPages
  <2> QED BY <1>3, <1>15, <2>2, <2>3
<1>16. /\ \A p \in Pages : p # 1 => window[p] = pd[p]
       /\ window[1] = page /\ DOMAIN window = Pages
  BY <1>3, <1>10, <1>12
<1>17. /\ \A p \in Pages : p # 1 /\ p # q => pd'[p] = pd[p]
       /\ pd'[q] = page
  BY <1>11, <1>12, <1>16
<1>18. Mapped(window, COPY_WINDOW + offset, dest + copied, frag)
  <2>1. ASSUME NEW k \in 1 .. frag
        PROVE  Translate(window, COPY_WINDOW + offset + k - 1) = dest + copied + k - 1
    <3>1. k - 1 \in 0 .. frag - 1 /\ COPY_WINDOW + offset + (k - 1) = COPY_WINDOW + offset + k - 1
      BY <1>1
    <3>2. /\ (COPY_WINDOW + offset + k - 1) \div P = 1
          /\ (COPY_WINDOW + offset + k - 1) % P = offset + (k - 1)
      BY <1>14, <3>1
    <3>3. Translate(window, COPY_WINDOW + offset + k - 1) = page + (offset + (k - 1))
      BY <1>16, <3>2 DEF Translate, P
    <3> QED BY <1>1, <1>3, <1>4, <1>9, <3>3
  <2> QED BY <2>1 DEF Mapped
<1>19. PICK cells : cells = Load(ram, window, data, frag)
  OBVIOUS
<1>20. /\ Len(cells) = frag
       /\ \A k \in 1 .. frag : cells[k] = ram[Translate(window, data + k - 1)]
  <2>1. data \in Int
    OBVIOUS
  <2> QED BY <1>19, <2>1, LoadAt
<1>21. Written(ram', ram, dest + copied, frag, cells)
  <2>1. COPY_WINDOW + offset \in Int /\ dest + copied \in Int
    BY <1>1, <1>3, <1>4
  <2> QED BY <1>3, <1>11, <1>18, <1>19, <1>20, <2>1, StoreAt
<1>22. ASSUME NEW k \in 1 .. frag
       PROVE  ram'[dest + copied + k - 1] = ram[initrd + copied + k - 1]
  <2>1. PICK j \in 0 .. initrd_len - 1 : j = copied + k - 1 /\ initrd + j = data + k - 1
    BY <1>3, <1>5, <1>8
  <2>2. Translate(pd, initrd + j) = initrd + j
    <3>1. CopyAt(j) = initrd + j
      BY <1>3, <2>1 DEF CopyAt
    <3> QED BY <1>2, <3>1 DEF CopyInv, CopyCell
  <2>3. Translate(window, initrd + j) = Translate(pd, initrd + j)
    BY <1>13, <1>16 DEF Translate, P
  <2>4. cells[k] = ram[initrd + j]
    BY <1>20, <2>1, <2>2, <2>3
  <2>5. PICK a \in MemoryCells :
          a = dest + copied + k - 1 /\ dest + copied <= a /\ a < dest + copied + frag
          /\ a - (dest + copied) + 1 = k
    BY <1>1, <1>3, <1>4, <1>8 DEF MemoryCells
  <2>6. ram'[a] = cells[a - (dest + copied) + 1]
    BY <1>21, <2>5 DEF Written
  <2> QED BY <1>3, <2>1, <2>4, <2>5, <2>6
<1>23. ASSUME NEW j \in 0 .. initrd_len - 1
       PROVE  Translate(pd', initrd + j)
                = IF copied <= j /\ j < copied + frag THEN dest + j ELSE Translate(pd, initrd + j)
  <2>1. CASE copied <= j /\ j < copied + frag
    <3>1. PICK k \in 0 .. frag - 1 : k = j - copied /\ initrd + j = data + k
      BY <1>3, <1>5, <2>1
    <3>2. (initrd + j) \div P = q /\ (initrd + j) % P = offset + k
      BY <1>14, <3>1
    <3>3. Translate(pd', initrd + j) = page + (offset + k)
      BY <1>17, <3>2 DEF Translate, P
    <3>4. page + (offset + k) = dest + j
      BY <1>1, <1>3, <1>4, <1>9, <3>1
    <3> QED BY <2>1, <3>3, <3>4
  <2>2. CASE ~(copied <= j /\ j < copied + frag)
    <3>1. (initrd + j) \div P # q
      BY <1>15, <2>2
    <3>2. Translate(pd', initrd + j) = Translate(pd, initrd + j)
      BY <1>13, <1>17, <3>1 DEF Translate, P
    <3> QED BY <2>2, <3>2
  <2> QED BY <2>1, <2>2
<1>24. copied + frag < initrd_len => (initrd + copied + frag) % P = 0
  <2> SUFFICES ASSUME copied + frag < initrd_len PROVE (initrd + copied + frag) % P = 0
    OBVIOUS
  <2>1. PICK w \in Int : w = initrd + copied + frag
    BY <1>3
  <2>2. w = P * q + P /\ P * (q + 1) = P * q + P /\ q + 1 \in Int
    BY <1>1, <1>3, <1>5, <1>6, <1>8, <2>1
  <2>3. P * (q + 1) <= w /\ w < P * (q + 1) + P /\ w - P * (q + 1) = 0
    BY <1>1, <2>2
  <2>4. w % P = 0
    BY <1>1, <2>2, <2>3, QuotientIs
  <2> QED BY <2>1, <2>4
<1>25. \A a \in MemoryCells :
         ~(dest + copied <= a /\ a < dest + copied + frag) => ram'[a] = ram[a]
  BY <1>21 DEF Written
<1>26. FragmentMoved(frag)
  BY <1>8, <1>11, <1>22, <1>23, <1>24, <1>25 DEF FragmentMoved, P
<1> QED BY <1>26

LEMMA CopyPageStore ==
  ASSUME StoreInv, PlacedInv, ChoiceInv, RelocateHigh, CopyPage
  PROVE  StoreInv'
<1>1. /\ pc = "relocate_high" /\ pc' = "relocate_high"
      /\ memory_pc = "copy" /\ memory_pc' = "copy"
      /\ UNCHANGED <<machine, archive, files, bootmgr, pe, raw_pe>>
      /\ UNCHANGED <<paging, initrd, initrd_len, dest>>
      /\ DOMAIN ram' = DOMAIN ram
  BY DEF RelocateHigh, Goto, MainUnchanged, cpioVars, CopyPage, givenVars, Store
<1>2. Relocating /\ SpaceInv /\ PlaceTypes /\ initrd_len # 0 /\ dest \in HighPlaces
  <2>1. Relocating
    BY <1>1 DEF Relocating
  <2> QED BY <1>1, <2>1, InMachine DEF StoreInv, PlacedInv, MemoryInv, HighInv
<1>3. SpaceInv' /\ FileInv'
  BY <1>1 DEF StoreInv, SpaceInv, IsMember, FileInv, ArchiveStart
<1>4. LoadInv' /\ RegionsInv'
  BY <1>1 DEF LoadInv, RegionsInv, Searching, Calling
<1>5. /\ Image' = Image /\ RoomForSections' = RoomForSections /\ (Good' <=> Good)
      /\ BootmgrFile' = BootmgrFile
  BY <1>1, GoodSame DEF Image, RoomForSections, BootmgrFile
<1>6. /\ pe.base = Image.base /\ pe.len \in Nat /\ RoomForSections \in Nat
      /\ \A i \in 1 .. Len(Image.sections) :
           Image.sections[i].virtual + Image.sections[i].virtual_len <= RoomForSections
      /\ Good => ImageLoaded(ram)
  BY <1>2 DEF StoreInv, ImageInv
<1>7. ASSUME Good PROVE ImageLoaded(ram') /\ CopyInv'
  <2>1. PICK frag \in Nat : FragmentMoved(frag)
    BY <1>2, <1>7, CopyFragment
  <2>2. /\ dest \in Nat /\ dest >= ADDR_4GB /\ dest + initrd_len <= MemorySize
        /\ initrd \in Nat /\ initrd_len \in Nat /\ initrd + initrd_len <= ADDR_4GB
        /\ ADDR_4GB \in Nat /\ MemorySize \in Nat /\ ADDR_4GB < MemorySize /\ copied \in Nat
    BY <1>2, <1>7, PlaceHigh, InitrdLow, Addresses DEF PlaceTypes
  <2>3. ASSUME NEW a \in MemoryCells, ~(dest + copied <= a /\ a < dest + copied + frag)
        PROVE  ram'[a] = ram[a]
    BY <2>1, <2>3 DEF FragmentMoved
  <2>4. ImageLoaded(ram')
    <3>1. WellFormedImage /\ pe.base + pe.len <= ADDR_4GB /\ pe.base \in Nat
      BY <1>2, <1>6, <1>7, ImageTypes DEF Good, WellFormedImage
    <3>2. ASSUME NEW a \in MemoryCells, pe.base <= a /\ a < pe.base + pe.len
          PROVE  ram'[a] = ram[a]
      <4>1. a \in Int /\ a < ADDR_4GB
        BY <1>6, <2>2, <3>1, <3>2 DEF MemoryCells
      <4> QED BY <2>2, <2>3, <4>1
    <3> QED BY <1>2, <1>6, <1>7, <3>1, <3>2, ImageKept
  <2>5. CopyInv
    BY <1>1, <1>2, <1>7 DEF StoreInv, InitrdInv
  <2>6. /\ copied' = copied + frag /\ copied' <= initrd_len
        /\ copied' < initrd_len => (initrd + copied') % PAGE_SIZE_2MB = 0
    <3>1. copied' = copied + frag /\ initrd + (copied + frag) = initrd + copied + frag
      BY <2>1, <2>2 DEF FragmentMoved
    <3> QED BY <2>1, <3>1 DEF FragmentMoved
  <2>7. ASSUME NEW j \in 0 .. initrd_len - 1 PROVE CopyCell(j)'
    <3>1. GoodCell(j, ram[CopyAt(j)]) /\ Translate(pd, initrd + j) = CopyAt(j)
      BY <2>5 DEF CopyInv, CopyCell
    <3>2. Translate(pd', initrd + j)
            = IF copied <= j /\ j < copied + frag THEN dest + j ELSE Translate(pd, initrd + j)
      BY <2>1 DEF FragmentMoved
    <3>3. CopyAt(j)' = IF j < copied + frag THEN dest + j ELSE initrd + j
      BY <1>1, <2>6 DEF CopyAt
    <3>4. \A cell : GoodCell(j, cell)' <=> GoodCell(j, cell)
      BY <1>1 DEF GoodCell, Prepended
    <3>5. CASE copied <= j /\ j < copied + frag
      <4>1. PICK k \in 1 .. frag : k = j - copied + 1
        BY <2>2, <3>5
      <4>2. dest + copied + k - 1 = dest + j /\ initrd + copied + k - 1 = initrd + j
        BY <2>2, <4>1
      <4>3. ram'[dest + j] = ram[initrd + j]
        <5>1. ram'[dest + copied + k - 1] = ram[initrd + copied + k - 1]
          BY <2>1 DEF FragmentMoved
        <5> QED BY <4>2, <5>1
      <4>4. CopyAt(j) = initrd + j
        BY <2>2, <3>5 DEF CopyAt
      <4> QED BY <1>1, <3>1, <3>2, <3>3, <3>4, <3>5, <4>3, <4>4 DEF CopyCell, Translate
    <3>6. CASE ~(copied <= j /\ j < copied + frag)
      <4>1. CopyAt(j)' = CopyAt(j)
        BY <2>2, <3>3, <3>6 DEF CopyAt
      <4>2. CopyAt(j) \in MemoryCells
            /\ ~(dest + copied <= CopyAt(j) /\ CopyAt(j) < dest + copied + frag)
        BY <2>2, <3>6 DEF CopyAt, MemoryCells
      <4>3. ram'[CopyAt(j)] = ram[CopyAt(j)]
        BY <2>3, <4>2
      <4> QED BY <1>1, <3>1, <3>2, <3>4, <3>6, <4>1, <4>3 DEF CopyCell, Translate
    <3> QED BY <3>5, <3>6
  <2>8. \A j \in 0 .. initrd_len' - 1 : CopyCell(j)'
    BY <1>1, <2>7
  <2>9. CopyInv'
    BY <1>1, <2>6, <2>8 DEF CopyInv
  <2> QED BY <2>4, <2>9
<1>8. ImageInv'
  <2>1. \A i : SectionLoaded(ram, i)' <=> SectionLoaded(ram', i)
    BY <1>5 DEF SectionLoaded
  <2>2. ImageLoaded(ram)' <=> ImageLoaded(ram')
    BY <1>1, <1>5, <2>1 DEF ImageLoaded
  <2> QED BY <1>1, <1>5, <1>6, <1>7, <2>2 DEF ImageInv
<1>9. InitrdInv'
  <2>1. ~Relocated'
    BY <1>1 DEF Relocated, Calling
  <2> QED BY <1>1, <1>5, <1>7, <2>1 DEF InitrdInv
<1> QED BY <1>3, <1>4, <1>8, <1>9 DEF StoreInv

----------------------------------------------------------------------------
(* The memory of the boot manager *)

LEMMA RelocateHighStore ==
  ASSUME StoreInv, PlacedInv, ChoiceInv, RelocateHigh
  PROVE  StoreInv'
BY SearchHighStore, CopyPageStore, CopiedStore DEF RelocateHigh, relocate_memory_high

LEMMA DescribeStore ==
  ASSUME StoreInv, Describe
  PROVE  StoreInv'
<1>1. /\ pc = "describe" /\ pc' = "disable_paging" /\ UNCHANGED coreVars /\ UNCHANGED highVars
      /\ regions' = {WIMBOOT_REGION, PE_REGION}
                    \union (IF initrd_phys >= ADDR_4GB THEN {} ELSE {INITRD_REGION})
  BY DEF Describe, Goto, memoryVars, cpioVars, coreVars, highVars
<1>2. Relocated /\ Relocated' /\ ~Relocating' /\ UNCHANGED <<pe, initrd, initrd_len, paging, ram, machine>>
  BY <1>1 DEF Relocated, Relocating, coreVars
<1>3. SpaceInv' /\ FileInv'
  BY <1>1, CoreSame DEF StoreInv
<1>4. LoadInv'
  BY <1>1 DEF LoadInv, Searching
<1>5. ImageInv'
  <2>1. /\ pe.base = Image.base /\ pe.len \in Nat /\ RoomForSections \in Nat
        /\ \A i \in 1 .. Len(Image.sections) :
             Image.sections[i].virtual + Image.sections[i].virtual_len <= RoomForSections
        /\ Good => ImageLoaded(ram)
    BY <1>2 DEF StoreInv, ImageInv
  <2>2. /\ (Good' <=> Good) /\ (ImageLoaded(ram)' <=> ImageLoaded(ram))
        /\ Image' = Image /\ RoomForSections' = RoomForSections
    BY <1>1, CoreSame
  <2> QED BY <1>2, <2>1, <2>2 DEF ImageInv
<1>6. InitrdInv'
  <2> SUFFICES ASSUME Good' PROVE InitrdInv'
    BY DEF InitrdInv
  <2>1. Good
    BY <1>1, CoreSame
  <2>2. /\ HoldsInitrd(ram, initrd_phys)
        /\ paging => \A j \in 0 .. initrd_len - 1 : Translate(pd, initrd + j) = initrd_phys + j
    BY <1>2, <2>1 DEF StoreInv, InitrdInv
  <2>3. UNCHANGED <<pd, initrd_phys>>
    BY <1>1 DEF highVars
  <2>4. HoldsInitrd(ram, initrd_phys)'
    BY <1>2, <2>2, <2>3 DEF HoldsInitrd, GoodCell, Prepended
  <2>5. paging' => \A j \in 0 .. initrd_len' - 1 : Translate(pd', initrd' + j) = initrd_phys' + j
    BY <1>2, <2>2, <2>3
  <2> QED BY <1>2, <2>4, <2>5 DEF InitrdInv, Translate
<1>7. RegionsInv'
  <2>1. UNCHANGED initrd_phys
    BY <1>1 DEF highVars
  <2> QED BY <1>1, <1>2, <2>1 DEF RegionsInv, PE_REGION, INITRD_REGION, Described, page_start,
                                  page_len, page_end, WIMBOOT_REGION
<1> QED BY <1>3, <1>4, <1>5, <1>6, <1>7 DEF StoreInv

\* A region descriptor covers the addresses that it was made for.
LEMMA RegionCovers ==
  ASSUME NEW a \in Nat, NEW b \in Nat, NEW x \in Int, a <= x, x < b
  PROVE  x \in PageCells(Described(page_start(a), page_len(a, b)))
<1>1. PICK S \in Nat \ {0} : S = PAGE_SIZE
  BY Addresses
<1>2. PICK p \in Int, r \in 0 .. S - 1 : p = a \div S /\ r = a % S /\ a = S * p + r
  BY Split
<1>3. PICK top \in Int : top = b + S - 1
  OBVIOUS
<1>4. PICK e \in Int, s \in 0 .. S - 1 : e = top \div S /\ s = top % S /\ top = S * e + s
  BY Split
<1>5. S * p <= a /\ b <= S * e
  BY <1>2, <1>3, <1>4
<1>6. /\ p * S = S * p /\ p * S + (e - p) * S = S * e
  OBVIOUS
<1>7. PageCells(Described(page_start(a), page_len(a, b)))
        = p * S .. p * S + (e - p) * S - 1
  BY <1>1, <1>2, <1>3, <1>4 DEF PageCells, Described, page_start, page_len, page_end, Cells
<1>8. x \in p * S .. S * e - 1
  BY <1>5, <1>6
<1> QED BY <1>6, <1>7, <1>8

LEMMA UseMemoryStore ==
  ASSUME StoreInv, PlacedInv, ChoiceInv, UseMemory
  PROVE  StoreInv'
<1>1. /\ pc = "bootmgr" /\ pc' = "bootmgr" /\ DOMAIN ram' = DOMAIN ram
      /\ \A a \in DOMAIN ram :
           (a < ADDR_4GB => \E r \in regions : a \in PageCells(r)) => ram'[a] = ram[a]
  BY DEF UseMemory
<1>2. /\ UNCHANGED <<machine, archive, files, bootmgr, pe, raw_pe, initrd, initrd_len, paging>>
      /\ UNCHANGED <<pd, initrd_phys, regions, memory_pc>>
  BY DEF UseMemory, cpioVars
<1>3. /\ Relocated /\ Relocated' /\ ~Relocating' /\ SpaceInv /\ PlaceTypes /\ initrd_len # 0
      /\ memory_pc = "relocated"
  <2>1. Relocated /\ Relocated' /\ ~Relocating'
    BY <1>1 DEF Relocated, Relocating, Calling
  <2> QED BY <1>1, <2>1, InMachine DEF StoreInv, PlacedInv, PhaseInv, Calling
<1>4. DOMAIN ram = MemoryCells
  BY <1>3 DEF SpaceInv
<1>5. SpaceInv' /\ FileInv'
  BY <1>1, <1>2 DEF StoreInv, SpaceInv, IsMember, FileInv, ArchiveStart
<1>6. LoadInv'
  BY <1>1 DEF LoadInv, Searching
<1>7. RegionsInv'
  BY <1>1, <1>2 DEF StoreInv, RegionsInv, PE_REGION, INITRD_REGION, Described, page_start,
                    page_len, page_end, WIMBOOT_REGION, Calling
<1>8. /\ Image' = Image /\ RoomForSections' = RoomForSections /\ (Good' <=> Good)
      /\ BootmgrFile' = BootmgrFile
  BY <1>2, GoodSame DEF Image, RoomForSections, BootmgrFile
<1>9. /\ pe.base = Image.base /\ pe.len \in Nat /\ RoomForSections \in Nat
      /\ \A i \in 1 .. Len(Image.sections) :
           Image.sections[i].virtual + Image.sections[i].virtual_len <= RoomForSections
      /\ Good => ImageLoaded(ram)
  BY <1>3 DEF StoreInv, ImageInv
<1>10. /\ PE_REGION \in regions
       /\ ~(initrd_phys >= ADDR_4GB) => INITRD_REGION \in regions
  BY <1>1 DEF StoreInv, RegionsInv, Calling
<1>11. ASSUME Good PROVE ImageLoaded(ram') /\ HoldsInitrd(ram', initrd_phys)
  <2>1. /\ initrd \in Nat /\ initrd_len \in Nat /\ initrd + initrd_len <= ADDR_4GB
        /\ ADDR_4GB \in Nat /\ MemorySize \in Nat /\ ADDR_4GB < MemorySize
    BY <1>3, <1>11, InitrdLow, Addresses
  <2>2. WellFormedImage /\ pe.base + pe.len <= ADDR_4GB /\ pe.base \in Nat
    BY <1>3, <1>9, <1>11, ImageTypes DEF Good, WellFormedImage
  <2>3. ASSUME NEW a \in MemoryCells, pe.base <= a /\ a < pe.base + pe.len
        PROVE  ram'[a] = ram[a]
    <3>1. a \in Int
      BY <2>1 DEF MemoryCells
    <3>2. PICK end \in Nat : end = pe.base + pe.len
      BY <1>9, <2>2
    <3>3. a \in PageCells(Described(page_start(pe.base), page_len(pe.base, end)))
      BY <2>2, <2>3, <3>1, <3>2, RegionCovers
    <3>4. a \in PageCells(PE_REGION)
      BY <3>2, <3>3 DEF PE_REGION
    <3> QED BY <1>1, <1>4, <1>10, <3>4
  <2>4. ImageLoaded(ram')
    BY <1>3, <1>9, <1>11, <2>2, <2>3, ImageKept
  <2>5. HoldsInitrd(ram, initrd_phys)
    BY <1>3, <1>11 DEF StoreInv, InitrdInv
  <2>6. initrd_phys \in HighPlaces \/ initrd_phys = initrd
    BY <1>3 DEF PlacedInv, MemoryInv, HighInv
  <2>7. ASSUME NEW j \in 0 .. initrd_len - 1
        PROVE  ram'[initrd_phys + j] = ram[initrd_phys + j]
    <3>1. CASE initrd_phys \in HighPlaces
      <4>1. /\ initrd_phys \in Nat /\ initrd_phys >= ADDR_4GB
            /\ initrd_phys + initrd_len <= MemorySize
        BY <1>3, <3>1, PlaceHigh
      <4>2. initrd_phys + j \in MemoryCells /\ ~(initrd_phys + j < ADDR_4GB)
        BY <2>1, <4>1 DEF MemoryCells
      <4> QED BY <1>1, <1>4, <4>2
    <3>2. CASE initrd_phys = initrd
      <4>1. PICK a \in MemoryCells : a = initrd + j
        BY <2>1 DEF MemoryCells
      <4>2. PICK end \in Nat : end = initrd + initrd_len
        BY <2>1
      <4>3. a \in Int /\ initrd <= a /\ a < end
        BY <2>1, <4>1, <4>2
      <4>4. a \in PageCells(Described(page_start(initrd), page_len(initrd, end)))
        BY <2>1, <4>3, RegionCovers
      <4>5. a \in PageCells(INITRD_REGION)
        BY <3>2, <4>2, <4>4 DEF INITRD_REGION, page_start
      <4>6. ~(initrd_phys >= ADDR_4GB)
        BY <2>1, <3>2, <4>1, <1>3
      <4>7. ram'[a] = ram[a]
        BY <1>1, <1>4, <1>10, <4>5, <4>6
      <4> QED BY <3>2, <4>1, <4>7
    <3> QED BY <2>6, <3>1, <3>2
  <2>8. HoldsInitrd(ram', initrd_phys)
    BY <2>5, <2>7 DEF HoldsInitrd
  <2> QED BY <2>4, <2>8
<1>12. ImageInv'
  <2>1. \A i : SectionLoaded(ram, i)' <=> SectionLoaded(ram', i)
    BY <1>8 DEF SectionLoaded
  <2>2. ImageLoaded(ram)' <=> ImageLoaded(ram')
    BY <1>2, <1>8, <2>1 DEF ImageLoaded
  <2> QED BY <1>2, <1>8, <1>9, <1>11, <2>2 DEF ImageInv
<1>13. InitrdInv'
  <2> SUFFICES ASSUME Good' PROVE InitrdInv'
    BY DEF InitrdInv
  <2>1. Good
    BY <1>8
  <2>2. HoldsInitrd(ram, initrd_phys)'
    BY <1>2, <1>11, <2>1 DEF HoldsInitrd, GoodCell, Prepended
  <2>3. paging' => \A j \in 0 .. initrd_len' - 1 : Translate(pd', initrd' + j) = initrd_phys' + j
    BY <1>2, <1>3, <2>1 DEF StoreInv, InitrdInv
  <2> QED BY <1>3, <2>2, <2>3 DEF InitrdInv, Translate
<1> QED BY <1>5, <1>6, <1>7, <1>12, <1>13 DEF StoreInv

----------------------------------------------------------------------------
(* The files and the image are intact *)

LEMMA StoreStep ==
  ASSUME StoreInv, PlacedInv, CpuInv, EarlyInv, ChoiceInv, ChoiceInv', [BootNext]_vars
  PROVE  StoreInv'
<1>1. CASE \/ ProcessCmdline \/ EnablePaging \/ CpioExtract \/ InitialiseInt13 \/ load_pe_fails
           \/ EnterBootmgr \/ CountDrives \/ MakeCall \/ BootmgrReturns
           \/ call_interrupt_wrapper \/ UNCHANGED vars
  BY <1>1, QuietStore
<1>2. CASE InitPaging \/ RelocateLow \/ AddFile \/ ProcessWim \/ ReadPe
  BY <1>2, InitPagingStore, RelocateLowStore, AddFileStore, ProcessWimStore, ReadPeStore
<1>3. CASE load_pe
  BY <1>3, HeaderStore, SectionStore, RawStore DEF load_pe
<1>4. CASE RelocateHigh \/ Describe \/ UseMemory
  BY <1>4, RelocateHighStore, DescribeStore, UseMemoryStore
<1> QED BY <1>1, <1>2, <1>3, <1>4 DEF BootNext, main

ContentInv == CpuInv /\ EarlyInv /\ StoreInv /\ FilesIntact

LEMMA ContentAlways == BootSpec => []ContentInv
<1>1. BootInit => ContentInv
  <2>1. BootInit => EarlyInv
    BY DEF BootInit, EarlyInv
  <2> QED BY <2>1, ContentInit DEF ContentInv
<1>2. /\ ContentInv /\ [BootNext]_vars
      /\ CallsInv /\ CallsInv' /\ PlacedInv /\ ChoiceInv /\ ChoiceInv'
      => ContentInv'
  BY CpuStep, EarlyStep, StoreStep, FilesStep DEF ContentInv
<1> QED BY <1>1, <1>2, CallsAlways, PlacedAlways, ChoiceAlways, PTL DEF BootSpec

\* Whatever the memory map, the archive, the sizes and the calls are: an extended read of
\* the emulated drive returns the initrd as it was loaded, behind what add_file put in
\* front of it, if bootmgr.exe is well formed and lies apart from it.
THEOREM FilesStayIntact == BootSpec => []FilesIntact
<1>1. ContentInv => FilesIntact
  BY DEF ContentInv
<1> QED BY <1>1, ContentAlways, PTL

LEMMA LoadLow ==
  ASSUME NEW v \in Nat, NEW n \in Nat, v + n <= ADDR_4GB
  PROVE  Load(ram, Identity, v, n) = [k \in 1 .. n |-> ram[v + k - 1]]
<1>1. Mapped(Identity, v, v, n)
  BY IdentityMapped
<1>2. \A k \in 1 .. n : Translate(Identity, v + k - 1) = v + k - 1
  BY <1>1 DEF Mapped
<1> QED BY <1>2 DEF Load

\* The sections that load_pe copied and the raw copy behind them are in memory while
\* bootmgr.exe runs, although it uses all memory that it was not told of.
THEOREM ImageStaysIntact == BootSpec => []ImageIntact
<1>1. ASSUME StoreInv PROVE ImageIntact
  <2> SUFFICES ASSUME pc = "bootmgr", Apart, WellFormedImage PROVE ImageIntact
    BY DEF ImageIntact
  <2>1. Relocated /\ Good /\ SpaceInv
    BY <1>1 DEF Relocated, Calling, Good, StoreInv
  <2>2. /\ pe.base = Image.base /\ pe.len \in Nat /\ RoomForSections \in Nat
        /\ \A i \in 1 .. Len(Image.sections) :
             Image.sections[i].virtual + Image.sections[i].virtual_len <= RoomForSections
        /\ ImageLoaded(ram)
    BY <1>1, <2>1 DEF StoreInv, ImageInv
  <2>3. /\ Image.base \in Nat /\ BootmgrLen \in Nat /\ BootmgrAt \in Nat /\ ADDR_4GB \in Nat
        /\ pe.base + pe.len <= ADDR_4GB /\ pe.len = RoomForSections + BootmgrLen
    BY <2>1, <2>2, ImageTypes, Addresses DEF WellFormedImage, RoomForSections
  <2>4. PICK base \in Nat, room \in Nat :
          base = pe.base /\ base = Image.base /\ room = RoomForSections
          /\ base + (room + BootmgrLen) <= ADDR_4GB
    BY <2>2, <2>3
  <2>5. Load(ram, Identity, base + room, BootmgrLen) = BootmgrFile
    <3>1. DOMAIN BootmgrFile = 1 .. BootmgrLen
          /\ BootmgrFile = [k \in 1 .. BootmgrLen |-> BootmgrFile[k]]
      <4>1. CASE files[bootmgr].from = "initrd"
        <5>1. BootmgrFile = [k \in 1 .. BootmgrLen |-> InitrdCells(machine.len)[BootmgrAt + k]]
          BY <2>3, <4>1 DEF BootmgrFile
        <5> QED BY <5>1
      <4>2. CASE files[bootmgr].from # "initrd"
        BY <4>2 DEF BootmgrFile, BootmgrCells
      <4> QED BY <4>1, <4>2
    <3>2. PICK v \in Nat : v = base + room /\ v + BootmgrLen <= ADDR_4GB
      BY <2>3, <2>4
    <3>3. \A k \in 1 .. BootmgrLen : ram[v + k - 1] = BootmgrFile[k]
      BY <2>2, <2>4, <3>2 DEF ImageLoaded
    <3>4. Load(ram, Identity, v, BootmgrLen) = [k \in 1 .. BootmgrLen |-> ram[v + k - 1]]
      BY <2>3, <3>2, LoadLow
    <3>5. [k \in 1 .. BootmgrLen |-> ram[v + k - 1]] = [k \in 1 .. BootmgrLen |-> BootmgrFile[k]]
      BY <3>3
    <3> QED BY <3>1, <3>2, <3>4, <3>5
  <2>6. ASSUME NEW i \in 1 .. Len(Image.sections)
        PROVE  LET s == Image.sections[i]
               IN  Load(ram, Identity, pe.base + s.virtual, s.virtual_len)
                     = [k \in 1 .. s.virtual_len |->
                          IF k <= s.raw_len THEN BootmgrFile[s.raw + k] ELSE Zero]
    <3>1. PICK virtual \in Nat, n \in Nat :
            virtual = Image.sections[i].virtual /\ n = Image.sections[i].virtual_len
      BY <2>1, ImageTypes
    <3>2. PICK f : f = [k \in 1 .. n |-> IF k <= Image.sections[i].raw_len
                                         THEN BootmgrFile[Image.sections[i].raw + k] ELSE Zero]
      OBVIOUS
    <3>3. virtual + n <= room
      BY <2>2, <2>4, <3>1
    <3>4. PICK v \in Nat : v = base + virtual /\ v + n <= ADDR_4GB
      BY <2>3, <2>4, <3>3
    <3>5. \A k \in 1 .. n : ram[v + k - 1] = f[k]
      BY <2>2, <2>4, <3>1, <3>2, <3>4 DEF ImageLoaded, SectionLoaded
    <3>6. Load(ram, Identity, v, n) = [k \in 1 .. n |-> ram[v + k - 1]]
      BY <3>4, LoadLow
    <3>7. Load(ram, Identity, v, n) = f
      BY <3>2, <3>5, <3>6
    <3> QED BY <2>4, <3>1, <3>2, <3>4, <3>7
  <2> QED BY <2>4, <2>5, <2>6 DEF ImageIntact
<1>2. ContentInv => ImageIntact
  BY <1>1 DEF ContentInv
<1> QED BY <1>2, ContentAlways, PTL

----------------------------------------------------------------------------
(* The archive *)

\* Item i of the archive takes the bytes from StartOf(i) up to ItemEnd(i).
StartOf(i) == archive.starts[i]
ItemEnd(i) == StartOf(i) + ItemLen(Items[i])

CpioNext ==
  \/ SkipPadding \/ EndOfArchive \/ BadOrTruncated \/ Trailer
  \/ \E name : ExtractMember(name)

\* The rounding of the code and the padding of a cpio writer are the same.
LEMMA RoundedUpToDword ==
  ASSUME NEW n \in Nat
  PROVE  /\ CpioPadded(n) = cpio_align(n) /\ cpio_align(n) \in Nat /\ n <= cpio_align(n)
         /\ cpio_align(n) % 4 = 0
BY DEF CpioPadded, cpio_align

LEMMA SumOfDwords ==
  ASSUME NEW a \in Nat, NEW b \in Nat, a % 4 = 0, b % 4 = 0
  PROVE  a + b \in Nat /\ (a + b) % 4 = 0
<1>1. PICK p \in Int, q \in Int : a = 4 * p /\ b = 4 * q
  OBVIOUS
<1> QED BY <1>1

\* The length of an item is a multiple of four, and a member's is its own, rounded up.
LEMMA ItemEnds ==
  ASSUME IsArchive(archive), NEW i \in 1 .. Len(Items)
  PROVE  /\ ItemLen(Items[i]) \in Nat \ {0} /\ ItemLen(Items[i]) % 4 = 0
         /\ IsMember(Items[i]) =>
              /\ MemberLen(Items[i]) \in Nat /\ CpioHeaderLen <= MemberLen(Items[i])
              /\ ItemLen(Items[i]) = cpio_align(MemberLen(Items[i]))
              /\ MemberLen(Items[i]) <= ItemLen(Items[i])
              /\ CpioPadded(CpioHeaderLen + Items[i].namesize) + Items[i].filesize
                   = MemberLen(Items[i])
<1>1. CASE IsMember(Items[i])
  <2>1. PICK h \in Nat \ {0}, n \in Nat, f \in Nat :
          h = CpioHeaderLen /\ n = Items[i].namesize /\ f = Items[i].filesize
    BY <1>1, CpioAssumption DEF IsArchive, Items
  <2>2. PICK k \in Nat : k = h + n
    OBVIOUS
  <2>6. CpioPadded(k) = cpio_align(k) /\ cpio_align(k) \in Nat /\ k <= cpio_align(k)
    BY RoundedUpToDword
  <2>7. PICK x \in Nat : x = cpio_align(k) /\ h <= x
    <3>1. h <= k
      BY <2>2
    <3> QED BY <2>6, <3>1
  <2>3. PICK m \in Nat : m = cpio_align(k) + f /\ h <= m
    <3>1. x + f \in Nat /\ h <= x + f
      BY <2>7
    <3> QED BY <2>7, <3>1
  <2>4. CpioPadded(m) = cpio_align(m) /\ cpio_align(m) \in Nat /\ m <= cpio_align(m)
        /\ cpio_align(m) % 4 = 0
    BY RoundedUpToDword
  <2>5. MemberLen(Items[i]) = m /\ ItemLen(Items[i]) = CpioPadded(m)
        /\ CpioPadded(CpioHeaderLen + Items[i].namesize) + Items[i].filesize = m
    BY <1>1, <2>1, <2>2, <2>3, <2>6 DEF MemberLen, DataOffset, ItemLen
  <2> QED BY <2>1, <2>3, <2>4, <2>5
<1>2. CASE ~IsMember(Items[i])
  BY <1>2 DEF IsArchive, Items, ItemLen
<1> QED BY <1>1, <1>2

\* Items stand one behind the other, at multiples of four.
LEMMA StartsAligned ==
  ASSUME IsArchive(archive), NEW i \in 1 .. Len(Items)
  PROVE  StartOf(i) \in Nat /\ StartOf(i) % 4 = 0
<1> DEFINE bad == {k \in 1 .. Len(Items) : ~(StartOf(k) \in Nat /\ StartOf(k) % 4 = 0)}
<1>1. Len(Items) \in Nat
  BY DEF IsArchive, Items
<1> SUFFICES ASSUME bad # {} PROVE FALSE
  OBVIOUS
<1>9. bad \in SUBSET Nat
  BY <1>1
<1>2. PICK k \in bad : \A l \in bad : k <= l
  <2> HIDE DEF bad
  <2> QED BY <1>9, LeastNatural
<1>3. StartOf(k) = IF k = 1 THEN 0 ELSE StartOf(k - 1) + ItemLen(Items[k - 1])
  BY DEF IsArchive, Items, StartOf
<1>4. k # 1
  BY <1>3
<1>5. k - 1 \in 1 .. Len(Items) /\ k - 1 \notin bad
  BY <1>1, <1>2, <1>4
<1>6. StartOf(k - 1) \in Nat /\ StartOf(k - 1) % 4 = 0
      /\ ItemLen(Items[k - 1]) \in Nat /\ ItemLen(Items[k - 1]) % 4 = 0
  BY <1>5, ItemEnds
<1>7. StartOf(k) \in Nat /\ StartOf(k) % 4 = 0
  BY <1>3, <1>4, <1>6, SumOfDwords
<1> QED BY <1>2, <1>7

LEMMA ItemSpan ==
  ASSUME IsArchive(archive), NEW i \in 1 .. Len(Items)
  PROVE  /\ StartOf(i) \in Nat /\ ItemEnd(i) \in Nat /\ StartOf(i) < ItemEnd(i)
         /\ StartOf(i) % 4 = 0 /\ ItemEnd(i) % 4 = 0
<1>1. PICK a \in Nat, b \in Nat \ {0} :
        a = StartOf(i) /\ b = ItemLen(Items[i]) /\ a % 4 = 0 /\ b % 4 = 0
  BY ItemEnds, StartsAligned
<1>2. PICK e \in Nat : e = a + b /\ e % 4 = 0 /\ a < e
  <2>1. (a + b) % 4 = 0 /\ a < a + b /\ a + b \in Nat
    BY <1>1, SumOfDwords
  <2> QED BY <2>1
<1>3. ItemEnd(i) = e
  BY <1>1, <1>2 DEF ItemEnd
<1> QED BY <1>1, <1>2, <1>3

LEMMA NextStart ==
  ASSUME IsArchive(archive), NEW i \in 1 .. Len(Items), i + 1 \in 1 .. Len(Items)
  PROVE  StartOf(i + 1) = ItemEnd(i)
<1>1. StartOf(i + 1) = IF i + 1 = 1 THEN 0 ELSE StartOf(i + 1 - 1) + ItemLen(Items[i + 1 - 1])
  BY DEF IsArchive, Items, StartOf
<1>2. i + 1 - 1 = i /\ i + 1 # 1
  BY DEF IsArchive, Items
<1> QED BY <1>1, <1>2 DEF ItemEnd

LEMMA StartsAscend ==
  ASSUME IsArchive(archive), NEW i \in 1 .. Len(Items), NEW j \in 1 .. Len(Items), i < j
  PROVE  ItemEnd(i) <= StartOf(j)
<1> DEFINE bad == {k \in i + 1 .. Len(Items) : ~(ItemEnd(i) <= StartOf(k))}
<1>1. Len(Items) \in Nat
  BY DEF IsArchive, Items
<1> SUFFICES ASSUME bad # {} PROVE FALSE
  OBVIOUS
<1>2. bad \in SUBSET Nat
  BY <1>1
<1>3. PICK k \in bad : \A l \in bad : k <= l
  <2> HIDE DEF bad
  <2> QED BY <1>2, LeastNatural
<1>4. PICK m \in 1 .. Len(Items) : m + 1 = k /\ m + 1 \in 1 .. Len(Items) /\ i <= m
  <2>1. k - 1 \in 1 .. Len(Items) /\ (k - 1) + 1 = k /\ k \in 1 .. Len(Items) /\ i <= k - 1
    BY <1>1, <1>3
  <2> QED BY <2>1
<1>5. StartOf(k) = ItemEnd(m)
  BY <1>4, NextStart
<1>6. i # m
  BY <1>3, <1>5, ItemSpan
<1>7. m \in i + 1 .. Len(Items) /\ m \notin bad
  BY <1>1, <1>3, <1>4, <1>6
<1>8. ItemEnd(i) <= StartOf(m)
  BY <1>7
<1>9. ItemEnd(i) \in Nat /\ StartOf(m) \in Nat /\ ItemEnd(m) \in Nat /\ StartOf(m) < ItemEnd(m)
  BY ItemSpan
<1> QED BY <1>3, <1>5, <1>8, <1>9

\* At most one item holds an offset.
LEMMA ItemAt ==
  ASSUME IsArchive(archive), NEW p \in 1 .. Len(Items), NEW j \in 1 .. Len(Items),
         StartOf(p) <= StartOf(j), StartOf(j) < ItemEnd(p)
  PROVE  j = p
<1>1. /\ StartOf(p) \in Nat /\ ItemEnd(p) \in Nat /\ StartOf(p) < ItemEnd(p)
      /\ StartOf(j) \in Nat /\ ItemEnd(j) \in Nat /\ StartOf(j) < ItemEnd(j)
  BY ItemSpan
<1>2. p < j => ItemEnd(p) <= StartOf(j)
  BY StartsAscend
<1>3. j < p => ItemEnd(j) <= StartOf(p)
  BY StartsAscend
<1>4. p \in Nat /\ j \in Nat
  BY DEF IsArchive, Items
<1> QED BY <1>1, <1>2, <1>3, <1>4

\* A member is sound exactly if its step is not longer than what is there.
LEMMA SoundIs ==
  ASSUME IsArchive(archive), NEW i \in 1 .. Len(Items), IsMember(Items[i]),
         cpio_len \in Nat, StartOf(i) + cpio_len = archive.len
  PROVE  Sound(i) <=> Items[i].magic /\ StepLen(Items[i]) <= cpio_len
<1>1. PICK m \in Nat : m = MemberLen(Items[i])
  BY ItemEnds
<1>2. PICK l \in Nat, s \in Nat :
        l = cpio_len /\ s = StartOf(i) /\ s % 4 = 0 /\ archive.len = s + l
  BY ItemSpan
<1>3. archive.starts[i] + CpioPadded(CpioHeaderLen + Items[i].namesize) + Items[i].filesize
        = s + m
  <2>1. PICK h \in Nat, n \in Nat, f \in Nat :
          h = CpioHeaderLen /\ n = Items[i].namesize /\ f = Items[i].filesize
    BY CpioAssumption DEF IsArchive, Items
  <2>2. PICK k \in Nat : k = h + n
    OBVIOUS
  <2>3. PICK x \in Nat : x = CpioPadded(k)
    BY RoundedUpToDword
  <2>4. x + f = m
    BY <1>1, <2>1, <2>2, <2>3, ItemEnds
  <2>5. (s + x) + f = s + m
    BY <2>4
  <2> QED BY <1>2, <2>1, <2>2, <2>3, <2>5 DEF StartOf
<1>4. CpioPadded(s + m) = s + cpio_align(m)
  <2>1. PICK q \in Int : s = 4 * q
    BY <1>2
  <2>2. PICK x \in Nat : x = m + 3 /\ (s + m) + 3 = 4 * q + x
    BY <2>1
  <2>3. (4 * q + x) \div 4 = q + x \div 4
    OBVIOUS
  <2>4. cpio_align(s + m) = 4 * (q + x \div 4) /\ cpio_align(m) = 4 * (x \div 4)
    BY <2>2, <2>3 DEF cpio_align
  <2>5. 4 * (q + x \div 4) = 4 * q + 4 * (x \div 4)
    OBVIOUS
  <2>6. s + m \in Nat
    OBVIOUS
  <2> QED BY <2>1, <2>4, <2>5, <2>6, RoundedUpToDword
<1>5. cpio_align(m) \in Nat /\ m <= cpio_align(m)
  BY RoundedUpToDword
<1>6. Sound(i) <=> Items[i].magic /\ (s + l = s + m \/ s + cpio_align(m) <= s + l)
  BY <1>2, <1>3, <1>4 DEF Sound
<1>7. StepLen(Items[i]) = IF m < l THEN cpio_align(m) ELSE m
  BY <1>1, <1>2 DEF StepLen
<1>8. (s + l = s + m \/ s + cpio_align(m) <= s + l) <=> (IF m < l THEN cpio_align(m) ELSE m) <= l
  <2>1. PICK a \in Nat : a = cpio_align(m) /\ m <= a
    BY <1>5
  <2>2. (s + l = s + m \/ s + a <= s + l) <=> (IF m < l THEN a ELSE m) <= l
    BY <2>1
  <2> QED BY <2>1, <2>2
<1>9. (IF m < l THEN cpio_align(m) ELSE m) <= l <=> StepLen(Items[i]) <= cpio_len
  BY <1>2, <1>7
<1> QED BY <1>6, <1>8, <1>9

----------------------------------------------------------------------------
(* The members that were extracted *)

\* All items before p were read; p is read next.
Passed(p) == \A j \in 1 .. p - 1 : j \in Present /\ Sound(j) /\ ~IsTrailer(Items[j])
TakenBefore(p) == {j \in Taken : j < p}

\* What is left starts in item p, zeros perhaps in their middle; what was extracted are the
\* members before it.
ReadUpTo(p, data, len, names) ==
  /\ p \in 1 .. Len(Items) + 1 /\ Passed(p)
  /\ Len(names) = Cardinality(TakenBefore(p))
  /\ \A i \in TakenBefore(p) : names[Position(i)] = Items[i].name
  /\ len = 0 => /\ Present = 1 .. p - 1
                /\ archive.len % 4 = 0 \/ (p > 1 /\ IsMember(Items[p - 1]))
  /\ len > 0 => /\ p \in 1 .. Len(Items)
                /\ StartOf(p) <= data /\ data < ItemEnd(p) /\ data % 4 = 0
                /\ IsMember(Items[p]) => data = StartOf(p)

MemberNames == {Items[i].name : i \in 1 .. Len(Items)}

Reading(data, len, names) ==
  /\ data \in Nat /\ len \in Nat /\ data + len = archive.len /\ names \in Seq(MemberNames)
  /\ \E p \in 1 .. Len(Items) + 1 : ReadUpTo(p, data, len, names)

\* MembersExtracted, of the names and the return code that a step leaves.
Extracted(names, rc) ==
  LET sound == /\ \A i \in Reached : Sound(i)
               /\ ~IsMember(Items[Max(Present)]) /\ Max(Present) \in Reached =>
                     archive.len % 4 = 0
  IN  /\ Len(names) = Cardinality(Taken)
      /\ \A i \in Taken : names[Position(i)] = Items[i].name
      /\ rc = IF Present = {} \/ sound THEN 0 ELSE -1

CpioInv ==
  /\ IsArchive(archive)
  /\ cpio_rc = Running => Reading(cpio_data, cpio_len, extracted)
  /\ cpio_rc # Running => Extracted(extracted, cpio_rc)

\* What is there of the archive ends behind the start of an item.
LEMMA PresentIs ==
  ASSUME IsArchive(archive)
  PROVE  /\ Present \in SUBSET Nat /\ IsFiniteSet(Present) /\ IsFiniteSet(Taken)
         /\ Taken \in SUBSET Present /\ Present \in SUBSET (1 .. Len(Items))
         /\ \A i \in 1 .. Len(Items) : i \in Present <=> StartOf(i) < archive.len
<1>1. Len(Items) \in Nat
  BY DEF IsArchive, Items
<1>2. Present \in SUBSET (1 .. Len(Items)) /\ Taken \in SUBSET Present
  BY DEF Present, Taken, Reached
<1>3. IsFiniteSet(1 .. Len(Items))
  BY <1>1, FS_Interval
<1>4. IsFiniteSet(Present)
  BY <1>2, <1>3, FS_Subset
<1>5. IsFiniteSet(Taken)
  BY <1>2, <1>4, FS_Subset
<1> QED BY <1>1, <1>2, <1>4, <1>5 DEF Present, StartOf

\* An item that is read is reached, and those behind it are not unless it is passed.
LEMMA NextReached ==
  ASSUME IsArchive(archive), NEW p \in Present, Passed(p)
  PROVE  /\ p \in Reached
         /\ \A i \in Present : i < p => i \in Reached
         /\ ~Sound(p) \/ IsTrailer(Items[p]) => \A i \in Reached : i <= p
<1>1. Present \in SUBSET (1 .. Len(Items)) /\ Len(Items) \in Nat
  BY PresentIs DEF IsArchive, Items
<1>2. \A j \in Present : j < p => j \in 1 .. p - 1
  BY <1>1
<1>3. \A j \in Present : j < p => Sound(j) /\ ~IsTrailer(Items[j])
  BY <1>2 DEF Passed
<1>4. \A i \in Present : i <= p => i \in Reached
  <2> SUFFICES ASSUME NEW i \in Present, i <= p
               PROVE  \A j \in Present : j < i => Sound(j) /\ ~IsTrailer(Items[j])
    BY DEF Reached
  <2>1. \A j \in Present : j < i => j < p
    BY <1>1
  <2> QED BY <1>3, <2>1
<1>5. p <= p /\ \A i \in Present : i < p => i <= p
  BY <1>1
<1>6. ASSUME ~Sound(p) \/ IsTrailer(Items[p]), NEW i \in Reached
      PROVE  i <= p
  <2>1. i \in Present /\ ~(p < i)
    BY <1>6 DEF Reached
  <2> QED BY <1>1, <2>1
<1> QED BY <1>4, <1>5, <1>6

\* A set of positions is one larger with the next member.
LEMMA TakenNext ==
  ASSUME IsArchive(archive), NEW p \in Present, Passed(p), Sound(p), ~IsTrailer(Items[p])
  PROVE  /\ Passed(p + 1)
         /\ ~IsMember(Items[p]) => TakenBefore(p + 1) = TakenBefore(p)
         /\ IsMember(Items[p]) =>
              /\ TakenBefore(p + 1) = TakenBefore(p) \union {p}
              /\ Cardinality(TakenBefore(p + 1)) = Cardinality(TakenBefore(p)) + 1
              /\ Position(p) = Cardinality(TakenBefore(p)) + 1
         /\ \A i \in TakenBefore(p) : Position(i) \in 1 .. Cardinality(TakenBefore(p))
<1>1. /\ Present \in SUBSET (1 .. Len(Items)) /\ Len(Items) \in Nat
      /\ Taken \in SUBSET Present /\ IsFiniteSet(Taken)
  BY PresentIs DEF IsArchive, Items
<1>2. Passed(p + 1)
  <2>1. \A j \in 1 .. (p + 1) - 1 : j = p \/ j \in 1 .. p - 1
    BY <1>1
  <2> QED BY <2>1 DEF Passed
<1>3. \A j \in Taken : j < p + 1 <=> (j < p \/ j = p)
  BY <1>1
<1>4. p \in Taken <=> IsMember(Items[p])
  BY NextReached DEF Taken
<1>5. ~IsMember(Items[p]) => TakenBefore(p + 1) = TakenBefore(p)
  BY <1>3, <1>4 DEF TakenBefore
<1>6. TakenBefore(p) \in SUBSET Taken /\ IsFiniteSet(TakenBefore(p))
  BY <1>1, FS_Subset DEF TakenBefore
<1>7. ASSUME IsMember(Items[p])
      PROVE  /\ TakenBefore(p + 1) = TakenBefore(p) \union {p}
             /\ Cardinality(TakenBefore(p + 1)) = Cardinality(TakenBefore(p)) + 1
             /\ Position(p) = Cardinality(TakenBefore(p)) + 1
  <2>1. TakenBefore(p + 1) = TakenBefore(p) \union {p}
    BY <1>3, <1>4, <1>7 DEF TakenBefore
  <2>2. p \notin TakenBefore(p)
    BY <1>1 DEF TakenBefore
  <2>3. Cardinality(TakenBefore(p) \union {p}) = Cardinality(TakenBefore(p)) + 1
    BY <1>6, <2>2, FS_AddElement
  <2>4. {j \in Taken : j <= p} = TakenBefore(p + 1)
    <3>1. \A j \in Taken : j <= p <=> j < p + 1
      BY <1>1
    <3> QED BY <3>1 DEF TakenBefore
  <2> QED BY <2>1, <2>3, <2>4 DEF Position
<1>8. ASSUME NEW i \in TakenBefore(p)
      PROVE  Position(i) \in 1 .. Cardinality(TakenBefore(p))
  <2> DEFINE upto == {j \in Taken : j <= i}
  <2>1. upto \in SUBSET TakenBefore(p) /\ i \in upto
    <3>1. i \in Taken /\ i < p
      BY DEF TakenBefore
    <3>2. i <= i /\ \A j \in Taken : j <= i => j < p
      BY <1>1, <3>1
    <3> QED BY <3>1, <3>2 DEF TakenBefore
  <2>2. IsFiniteSet(upto) /\ Cardinality(upto) <= Cardinality(TakenBefore(p))
    BY <1>6, <2>1, FS_Subset
  <2>3. Cardinality(upto) \in Nat /\ Cardinality(TakenBefore(p)) \in Nat
    BY <1>6, <2>2, FS_CardinalityType
  <2>4. Cardinality(upto) # 0
    <3> HIDE DEF upto
    <3> QED BY <2>1, <2>2, FS_EmptySet
  <2>5. Position(i) = Cardinality(upto)
    BY DEF Position
  <2> QED BY <2>2, <2>3, <2>4, <2>5
<1> QED BY <1>2, <1>5, <1>7, <1>8

\* What was extracted when an item is passed: its name, if it is a member.
NamesAfter(p, names) == IF IsMember(Items[p]) THEN Append(names, Items[p].name) ELSE names

LEMMA NamesNext ==
  ASSUME IsArchive(archive), NEW p \in Present, Passed(p), Sound(p), ~IsTrailer(Items[p]),
         NEW names \in Seq(MemberNames), Len(names) = Cardinality(TakenBefore(p)),
         \A i \in TakenBefore(p) : names[Position(i)] = Items[i].name
  PROVE  /\ Len(NamesAfter(p, names)) = Cardinality(TakenBefore(p + 1))
         /\ \A i \in TakenBefore(p + 1) : NamesAfter(p, names)[Position(i)] = Items[i].name
         /\ NamesAfter(p, names) \in Seq(MemberNames)
<1>1. CASE ~IsMember(Items[p])
  BY <1>1, TakenNext DEF NamesAfter
<1>2. CASE IsMember(Items[p])
  <2>1. PICK n \in Nat : n = Len(names) /\ n = Cardinality(TakenBefore(p))
    OBVIOUS
  <2>2. PICK name \in MemberNames : name = Items[p].name
    BY PresentIs DEF MemberNames
  <2>3. NamesAfter(p, names) = Append(names, name)
    BY <1>2, <2>2 DEF NamesAfter
  <2>4. /\ Append(names, name) \in Seq(MemberNames) /\ Len(Append(names, name)) = n + 1
        /\ Append(names, name)[n + 1] = name
        /\ \A k \in 1 .. n : Append(names, name)[k] = names[k]
    BY <2>1
  <2>5. /\ TakenBefore(p + 1) = TakenBefore(p) \union {p}
        /\ Cardinality(TakenBefore(p + 1)) = n + 1 /\ Position(p) = n + 1
        /\ \A i \in TakenBefore(p) : Position(i) \in 1 .. n
    BY <1>2, <2>1, TakenNext
  <2> QED BY <2>2, <2>3, <2>4, <2>5
<1> QED BY <1>1, <1>2

\* An item has been read, and what is left starts with the next one.
LEMMA ItemPassed ==
  ASSUME IsArchive(archive), NEW p \in Present, Sound(p), ~IsTrailer(Items[p]),
         NEW data \in Nat, NEW len \in Nat, data + len = archive.len,
         NEW names \in Seq(MemberNames), Passed(p), Len(names) = Cardinality(TakenBefore(p)),
         \A i \in TakenBefore(p) : names[Position(i)] = Items[i].name,
         len > 0 => data = ItemEnd(p),
         len = 0 => archive.len <= ItemEnd(p) /\ (archive.len % 4 = 0 \/ IsMember(Items[p]))
  PROVE  Reading(data, len, NamesAfter(p, names))
<1>1. /\ Present \in SUBSET (1 .. Len(Items)) /\ Len(Items) \in Nat
      /\ \A i \in 1 .. Len(Items) : i \in Present <=> StartOf(i) < archive.len
  BY PresentIs DEF IsArchive, Items
<1>2. p \in 1 .. Len(Items) /\ p + 1 \in 1 .. Len(Items) + 1 /\ (p + 1) - 1 = p
  BY <1>1
<1>3. Passed(p + 1)
  BY TakenNext
<1>4. /\ Len(NamesAfter(p, names)) = Cardinality(TakenBefore(p + 1))
      /\ \A i \in TakenBefore(p + 1) : NamesAfter(p, names)[Position(i)] = Items[i].name
      /\ NamesAfter(p, names) \in Seq(MemberNames)
  BY NamesNext
<1>5. ASSUME len = 0
      PROVE  /\ Present = 1 .. p
             /\ archive.len % 4 = 0 \/ (p + 1 > 1 /\ IsMember(Items[p]))
  <2>1. \A j \in 1 .. p : j \in Present
    BY <1>2, <1>3 DEF Passed
  <2>2. ASSUME NEW j \in Present PROVE j \in 1 .. p
    <3>1. j \in 1 .. Len(Items) /\ StartOf(j) < archive.len /\ archive.len <= ItemEnd(p)
      BY <1>1, <1>5
    <3>2. StartOf(j) \in Nat /\ ItemEnd(p) \in Nat /\ archive.len \in Nat
      BY <1>2, <3>1, ItemSpan DEF IsArchive
    <3>3. p < j => ItemEnd(p) <= StartOf(j)
      BY <1>2, <3>1, StartsAscend
    <3> QED BY <1>2, <3>1, <3>2, <3>3
  <2>3. Present = 1 .. p
    BY <2>1, <2>2
  <2> QED BY <1>2, <1>5, <2>3
<1>6. ASSUME len > 0
      PROVE  /\ p + 1 \in 1 .. Len(Items)
             /\ StartOf(p + 1) = data /\ data < ItemEnd(p + 1) /\ data % 4 = 0
  <2>1. p # Len(Items)
    <3>1. Len(Items) # 0 /\ archive.len <= ItemEnd(Len(Items))
      BY <1>2 DEF IsArchive, Items, ItemEnd, StartOf
    <3>2. PICK e \in Nat : e = ItemEnd(p)
      BY <1>2, ItemSpan
    <3>3. ~(data + len <= e)
      BY <1>6, <3>2
    <3> QED BY <3>1, <3>2, <3>3
  <2>2. p + 1 \in 1 .. Len(Items)
    BY <1>1, <1>2, <2>1
  <2> QED BY <1>2, <1>6, <2>2, NextStart, ItemSpan
<1>7. ReadUpTo(p + 1, data, len, NamesAfter(p, names))
  BY <1>2, <1>3, <1>4, <1>5, <1>6 DEF ReadUpTo
<1> QED BY <1>2, <1>4, <1>7 DEF Reading

\* Where the next item is, if there is more to read.
LEMMA NextItem ==
  ASSUME IsArchive(archive), cpio_len # 0, NEW p \in 1 .. Len(Items) + 1,
         cpio_data \in Nat, cpio_len \in Nat, cpio_data + cpio_len = archive.len,
         ReadUpTo(p, cpio_data, cpio_len, extracted)
  PROVE  /\ p \in Present /\ p \in 1 .. Len(Items)
         /\ StartOf(p) <= cpio_data /\ cpio_data < ItemEnd(p) /\ cpio_data % 4 = 0
         /\ HeadersAt(cpio_data) = IF IsMember(Items[p]) THEN {Items[p]} ELSE {}
         /\ IsMember(Items[p]) => StartOf(p) = cpio_data
<1>1. /\ p \in 1 .. Len(Items) /\ StartOf(p) <= cpio_data /\ cpio_data < ItemEnd(p)
      /\ cpio_data % 4 = 0 /\ (IsMember(Items[p]) => cpio_data = StartOf(p))
  BY DEF ReadUpTo
<1>2. StartOf(p) \in Nat
  BY <1>1, ItemSpan
<1>3. p \in Present
  BY <1>1, <1>2, PresentIs
<1>4. \A j \in 1 .. Len(Items) : StartOf(j) = cpio_data => j = p
  BY <1>1, ItemAt
<1>5. HeadersAt(cpio_data) = {Items[i] : i \in {j \in 1 .. Len(Items) :
                                IsMember(Items[j]) /\ StartOf(j) = cpio_data}}
  BY DEF HeadersAt, Items, StartOf
<1>6. CASE IsMember(Items[p])
  <2>1. {j \in 1 .. Len(Items) : IsMember(Items[j]) /\ StartOf(j) = cpio_data} = {p}
    BY <1>1, <1>4, <1>6
  <2> QED BY <1>1, <1>3, <1>5, <1>6, <2>1
<1>7. CASE ~IsMember(Items[p])
  <2>1. {j \in 1 .. Len(Items) : IsMember(Items[j]) /\ StartOf(j) = cpio_data} = {}
    BY <1>4, <1>7
  <2> QED BY <1>1, <1>3, <1>5, <1>7, <2>1
<1> QED BY <1>6, <1>7

LEMMA ReadingInit == CpioInit => CpioInv
<1> SUFFICES ASSUME CpioInit PROVE CpioInv
  OBVIOUS
<1>1. /\ IsArchive(archive) /\ cpio_data = 0 /\ cpio_len = archive.len /\ extracted = <<>>
      /\ cpio_rc = Running /\ cpio_len \in Nat /\ Len(Items) \in Nat
  BY DEF CpioInit, IsArchive, Items
<1>2. TakenBefore(1) = {}
  <2>1. \A j \in Taken : j \in 1 .. Len(Items)
    BY <1>1, PresentIs
  <2>2. \A j \in Taken : ~(j < 1)
    BY <1>1, <2>1
  <2> QED BY <2>2 DEF TakenBefore
<1>3. Cardinality(TakenBefore(1)) = 0
  BY <1>2, FS_EmptySet
<1>4. Passed(1)
  BY DEF Passed
<1>5. extracted \in Seq(MemberNames) /\ Len(extracted) = 0
  BY <1>1
<1>6. ASSUME cpio_len = 0
      PROVE  Present = 1 .. 0 /\ archive.len % 4 = 0
  <2>1. \A i \in Present : StartOf(i) \in Nat /\ StartOf(i) < 0
    BY <1>1, <1>6, PresentIs, ItemSpan
  <2> QED BY <1>1, <1>6, <2>1
<1>7. ASSUME cpio_len > 0
      PROVE  1 \in 1 .. Len(Items) /\ StartOf(1) = 0 /\ 0 < ItemEnd(1)
  <2>1. 1 \in 1 .. Len(Items)
    BY <1>1, <1>7 DEF IsArchive, Items
  <2>2. StartOf(1) = 0
    BY <1>1, <2>1 DEF IsArchive, Items, StartOf
  <2> QED BY <1>1, <2>1, <2>2, ItemSpan
<1>8. 1 \in 1 .. Len(Items) + 1
  BY <1>1
<1>9. ReadUpTo(1, cpio_data, cpio_len, extracted)
  BY <1>1, <1>2, <1>3, <1>4, <1>5, <1>6, <1>7, <1>8 DEF ReadUpTo
<1> QED BY <1>1, <1>5, <1>8, <1>9 DEF CpioInv, Reading, Running

\* No step changes the archive, so what is said of it stays true.
LEMMA CpioFrame ==
  ASSUME IsArchive(archive), UNCHANGED archive,
         cpio_rc' = Running => Reading(cpio_data', cpio_len', extracted'),
         cpio_rc' # Running => Extracted(extracted', cpio_rc')
  PROVE  CpioInv'
<1>1. IsArchive(archive)'
  BY DEF IsArchive, ItemLen, IsMember, CpioPadded
<1>2. Items' = Items
  BY DEF Items
<1>3. Present' = Present
  BY <1>2 DEF Present
<1>4. \A i : Sound(i)' = Sound(i)
  BY <1>2 DEF Sound
<1>5. Reached' = Reached
  BY <1>2, <1>3, <1>4 DEF Reached
<1>6. Taken' = Taken
  BY <1>2, <1>4, <1>5 DEF Taken
<1>7. \A i : Position(i)' = Position(i)
  BY <1>6 DEF Position
<1>8. Reading(cpio_data, cpio_len, extracted)' <=> Reading(cpio_data', cpio_len', extracted')
  BY <1>2, <1>3, <1>4, <1>6, <1>7, ZenonT(60)
  DEF Reading, ReadUpTo, Passed, TakenBefore, MemberNames, StartOf, ItemEnd
<1>9. Extracted(extracted, cpio_rc)' <=> Extracted(extracted', cpio_rc')
  BY <1>2, <1>3, <1>4, <1>5, <1>6, <1>7 DEF Extracted
<1> QED BY <1>1, <1>8, <1>9 DEF CpioInv

\* Zeros of one item, or the last of them.
LEMMA SkipPaddingStep ==
  ASSUME CpioInv, SkipPadding
  PROVE  CpioInv'
<1>1. /\ IsArchive(archive) /\ Reading(cpio_data, cpio_len, extracted)
      /\ UNCHANGED <<archive, extracted, cpio_rc>> /\ cpio_rc = Running
      /\ cpio_len >= 4 /\ HeadersAt(cpio_data) = {}
      /\ cpio_data' = cpio_data + 4 /\ cpio_len' = cpio_len - 4
  BY DEF CpioInv, SkipPadding, InHeader
<1>2. /\ cpio_data \in Nat /\ cpio_len \in Nat /\ cpio_data + cpio_len = archive.len
      /\ extracted \in Seq(MemberNames) /\ cpio_len # 0
  BY <1>1 DEF Reading
<1>3. PICK p \in 1 .. Len(Items) + 1 : ReadUpTo(p, cpio_data, cpio_len, extracted)
  BY <1>1 DEF Reading
<1>4. /\ p \in Present /\ p \in 1 .. Len(Items) /\ StartOf(p) <= cpio_data
      /\ cpio_data < ItemEnd(p) /\ cpio_data % 4 = 0 /\ ~IsMember(Items[p])
  <2>1. HeadersAt(cpio_data) = IF IsMember(Items[p]) THEN {Items[p]} ELSE {}
    BY <1>1, <1>2, <1>3, NextItem
  <2>2. ~IsMember(Items[p])
    BY <1>1, <2>1
  <2> QED BY <1>1, <1>2, <1>3, <2>2, NextItem
<1>5. PICK d \in Nat, l \in Nat :
        /\ d = cpio_data + 4 /\ l = cpio_len - 4 /\ d + l = archive.len
        /\ d % 4 = 0 /\ (l = 0 => archive.len % 4 = 0)
        /\ StartOf(p) <= d /\ d <= ItemEnd(p)
  <2>1. PICK d \in Nat, l \in Nat : d = cpio_data + 4 /\ l = cpio_len - 4 /\ d + l = archive.len
    BY <1>1, <1>2
  <2>2. d % 4 = 0
    BY <1>2, <1>4, <2>1
  <2>3. l = 0 => archive.len = d
    BY <2>1
  <2>4. StartOf(p) \in Nat /\ ItemEnd(p) \in Nat /\ ItemEnd(p) % 4 = 0
    BY <1>1, <1>4, ItemSpan
  <2>5. PICK s \in Nat, o \in Nat, e \in Nat :
          /\ s = StartOf(p) /\ o = cpio_data /\ e = ItemEnd(p)
          /\ s <= o /\ o < e /\ o % 4 = 0 /\ e % 4 = 0
    BY <1>2, <1>4, <2>4
  <2>6. o + 4 <= e
    <3>1. PICK a \in Int, b \in Int : o = 4 * a /\ e = 4 * b
      BY <2>5
    <3> QED BY <2>5, <3>1
  <2>7. s <= d /\ d <= e
    <3>1. d = o + 4
      BY <2>1, <2>5
    <3> QED BY <2>5, <2>6, <3>1
  <2> QED BY <2>1, <2>2, <2>3, <2>5, <2>7
<1>6. Sound(p) /\ ~IsTrailer(Items[p]) /\ NamesAfter(p, extracted) = extracted
  BY <1>4 DEF Sound, IsTrailer, NamesAfter
<1>7. /\ Passed(p) /\ Len(extracted) = Cardinality(TakenBefore(p))
      /\ \A i \in TakenBefore(p) : extracted[Position(i)] = Items[i].name
  BY <1>3 DEF ReadUpTo
<1>10. PICK e \in Nat : e = ItemEnd(p) /\ d <= e
  BY <1>1, <1>4, <1>5, ItemSpan
<1>8. CASE l = 0 \/ d = ItemEnd(p)
  <2>1. l = 0 => archive.len = d
    <3>1. l = 0 => d + l = d
      OBVIOUS
    <3> QED BY <1>5, <3>1
  <2>2. l = 0 => archive.len <= ItemEnd(p) /\ (archive.len % 4 = 0 \/ IsMember(Items[p]))
    BY <1>5, <1>10, <2>1
  <2>3. l > 0 => d = ItemEnd(p)
    BY <1>8
  <2>4. Reading(d, l, NamesAfter(p, extracted))
    BY <1>1, <1>2, <1>4, <1>5, <1>6, <1>7, <2>2, <2>3, ItemPassed
  <2> QED BY <1>1, <1>5, <1>6, <2>4, CpioFrame
<1>9. CASE l # 0 /\ d # ItemEnd(p)
  <2>1. d < ItemEnd(p)
    BY <1>9, <1>10
  <2>2. ReadUpTo(p, d, l, extracted)
    BY <1>3, <1>4, <1>5, <1>7, <1>9, <2>1 DEF ReadUpTo
  <2>3. Reading(d, l, extracted)
    BY <1>2, <1>5, <2>2 DEF Reading
  <2> QED BY <1>1, <1>5, <2>3, CpioFrame
<1> QED BY <1>8, <1>9

LEMMA ExtractStep ==
  ASSUME CpioInv, NEW name, ExtractMember(name)
  PROVE  CpioInv'
<1>1. PICK member \in HeadersAt(cpio_data) :
        /\ Whole(member) /\ member.name # CPIO_TRAILER /\ member.name = name
        /\ extracted' = Append(extracted, name)
        /\ cpio_data' = cpio_data + StepLen(member) /\ cpio_len' = cpio_len - StepLen(member)
        /\ UNCHANGED <<archive, cpio_rc>>
  BY DEF ExtractMember
<1>2. /\ cpio_rc = Running /\ cpio_len >= CpioHeaderLen /\ member.magic
      /\ StepLen(member) <= cpio_len
      /\ IsArchive(archive) /\ Reading(cpio_data, cpio_len, extracted)
  BY <1>1 DEF Whole, AtHeader, CpioInv
<1>3. /\ cpio_data \in Nat /\ cpio_len \in Nat /\ cpio_data + cpio_len = archive.len
      /\ extracted \in Seq(MemberNames) /\ cpio_len # 0
  BY <1>2, CpioAssumption DEF Reading
<1>4. PICK p \in 1 .. Len(Items) + 1 : ReadUpTo(p, cpio_data, cpio_len, extracted)
  BY <1>2 DEF Reading
<1>5. /\ p \in Present /\ p \in 1 .. Len(Items) /\ IsMember(Items[p]) /\ member = Items[p]
      /\ StartOf(p) = cpio_data
  BY <1>1, <1>2, <1>3, <1>4, NextItem
<1>6. Sound(p) /\ ~IsTrailer(Items[p]) /\ NamesAfter(p, extracted) = Append(extracted, name)
  BY <1>1, <1>2, <1>3, <1>5, SoundIs DEF IsTrailer, NamesAfter
<1>7. /\ Passed(p) /\ Len(extracted) = Cardinality(TakenBefore(p))
      /\ \A i \in TakenBefore(p) : extracted[Position(i)] = Items[i].name
  BY <1>4 DEF ReadUpTo
<1>8. PICK m \in Nat, a \in Nat, c \in Nat :
        /\ m = MemberLen(member) /\ a = ItemLen(member) /\ a = cpio_align(m) /\ m <= a
        /\ c = cpio_len
  BY <1>2, <1>3, <1>5, ItemEnds
<1>9. StepLen(member) = IF m < c THEN a ELSE m
  BY <1>8 DEF StepLen
<1>10. PICK s \in Nat : s = StepLen(member) /\ s = IF m < c THEN a ELSE m
  BY <1>8, <1>9
<1>11. PICK d \in Nat, l \in Nat :
         /\ d = cpio_data + s /\ l = cpio_len - s /\ d + l = archive.len
         /\ l > 0 => s = a
         /\ l = 0 => archive.len <= cpio_data + a
  <2>1. PICK o \in Nat : o = cpio_data /\ o + c = archive.len
    BY <1>3, <1>8
  <2>2. s <= c
    BY <1>2, <1>8, <1>10
  <2>3. PICK d \in Nat, l \in Nat : d = o + s /\ l = c - s /\ d + l = o + c
    BY <2>2
  <2>4. l > 0 => s = a
    <3>1. CASE m < c
      BY <1>10, <3>1
    <3>2. CASE ~(m < c)
      <4>1. s = m /\ c <= m
        BY <1>10, <3>2
      <4> QED BY <2>3, <4>1
    <3> QED BY <3>1, <3>2
  <2>5. l = 0 => o + c <= o + a
    BY <1>8, <1>10, <2>3
  <2> QED BY <1>8, <1>10, <2>1, <2>3, <2>4, <2>5
<1>12. ItemEnd(p) = cpio_data + a
  BY <1>5, <1>8 DEF ItemEnd
<1>13. /\ l > 0 => d = ItemEnd(p)
       /\ l = 0 => archive.len <= ItemEnd(p) /\ (archive.len % 4 = 0 \/ IsMember(Items[p]))
  BY <1>5, <1>11, <1>12
<1>14. Reading(d, l, NamesAfter(p, extracted))
  BY <1>2, <1>3, <1>5, <1>6, <1>7, <1>11, <1>13, ItemPassed
<1> QED BY <1>1, <1>2, <1>6, <1>10, <1>11, <1>14, CpioFrame

\* What a trailer or a damaged item leaves unread is not taken.
LEMMA LastTaken ==
  ASSUME IsArchive(archive), NEW p \in Present, Passed(p),
         ~Sound(p) \/ ~IsMember(Items[p]) \/ IsTrailer(Items[p]),
         \A i \in Reached : i <= p
  PROVE  TakenBefore(p) = Taken
<1>1. \A j \in Taken : j \in Reached /\ j # p /\ j <= p /\ j \in Nat /\ p \in Nat
  BY PresentIs DEF Taken
<1>2. \A j \in Taken : j < p
  BY <1>1
<1> QED BY <1>2 DEF TakenBefore

\* The largest item of which there is something.
LEMMA LastPresent ==
  ASSUME IsArchive(archive), NEW p \in Present, \A i \in Present : i <= p
  PROVE  Max(Present) = p
<1>1. Present \in SUBSET Nat
  BY PresentIs
<1> QED BY <1>1, MaxIs

\* Everything was passed: the last item is a member, or the length a multiple of four.
LEMMA EndStep ==
  ASSUME CpioInv, EndOfArchive
  PROVE  CpioInv'
<1>1. /\ IsArchive(archive) /\ Reading(cpio_data, cpio_len, extracted) /\ cpio_len = 0
      /\ UNCHANGED <<archive, extracted>> /\ cpio_rc' = 0
  BY DEF CpioInv, EndOfArchive, AtHeader, Return
<1>2. PICK p \in 1 .. Len(Items) + 1 : ReadUpTo(p, cpio_data, cpio_len, extracted)
  BY <1>1 DEF Reading
<1>3. /\ Present = 1 .. p - 1 /\ Passed(p)
      /\ archive.len % 4 = 0 \/ (p > 1 /\ IsMember(Items[p - 1]))
      /\ Len(extracted) = Cardinality(TakenBefore(p))
      /\ \A i \in TakenBefore(p) : extracted[Position(i)] = Items[i].name
  BY <1>1, <1>2 DEF ReadUpTo
<1>4. \A i \in Present : Sound(i)
  BY <1>3 DEF Passed
<1>5. p \in Nat /\ Reached \in SUBSET Present /\ Taken \in SUBSET Present
  BY <1>1 DEF IsArchive, Items, Reached, Taken
<1>6. TakenBefore(p) = Taken
  <2>1. \A j \in Taken : j < p
    BY <1>3, <1>5
  <2> QED BY <2>1 DEF TakenBefore
<1>7. ASSUME p > 1
      PROVE  Max(Present) = p - 1
  <2>1. p - 1 \in Present /\ \A i \in Present : i <= p - 1
    BY <1>3, <1>5, <1>7
  <2> QED BY <1>1, <2>1, LastPresent
<1>8. ~IsMember(Items[Max(Present)]) => archive.len % 4 = 0
  BY <1>3, <1>7
<1>9. Extracted(extracted', cpio_rc')
  BY <1>1, <1>3, <1>4, <1>5, <1>6, <1>8 DEF Extracted
<1> QED BY <1>1, <1>9, CpioFrame DEF Running

\* What lies behind a trailer is not reached.
LEMMA TrailerStep ==
  ASSUME CpioInv, Trailer
  PROVE  CpioInv'
<1>1. PICK member \in HeadersAt(cpio_data) : Whole(member) /\ member.name = CPIO_TRAILER /\ Return(0)
  BY DEF Trailer
<1>2. /\ cpio_rc = Running /\ cpio_len >= CpioHeaderLen /\ member.magic
      /\ StepLen(member) <= cpio_len
      /\ IsArchive(archive) /\ Reading(cpio_data, cpio_len, extracted)
      /\ UNCHANGED <<archive, extracted>> /\ cpio_rc' = 0
  BY <1>1 DEF Whole, AtHeader, CpioInv, Return
<1>3. /\ cpio_data \in Nat /\ cpio_len \in Nat /\ cpio_data + cpio_len = archive.len
      /\ cpio_len # 0
  BY <1>2, CpioAssumption DEF Reading
<1>4. PICK p \in 1 .. Len(Items) + 1 : ReadUpTo(p, cpio_data, cpio_len, extracted)
  BY <1>2 DEF Reading
<1>5. /\ p \in Present /\ p \in 1 .. Len(Items) /\ IsMember(Items[p]) /\ member = Items[p]
      /\ StartOf(p) = cpio_data
  BY <1>1, <1>2, <1>3, <1>4, NextItem
<1>6. Sound(p) /\ IsTrailer(Items[p])
  BY <1>1, <1>2, <1>3, <1>5, SoundIs DEF IsTrailer
<1>7. /\ Passed(p) /\ Len(extracted) = Cardinality(TakenBefore(p))
      /\ \A i \in TakenBefore(p) : extracted[Position(i)] = Items[i].name
  BY <1>4 DEF ReadUpTo
<1>8. p \in Reached /\ \A i \in Reached : i <= p
  BY <1>2, <1>5, <1>6, <1>7, NextReached
<1>9. TakenBefore(p) = Taken
  BY <1>2, <1>5, <1>6, <1>7, <1>8, LastTaken
<1>10. \A i \in Reached : Sound(i)
  <2>1. \A i \in Reached : i = p \/ i \in 1 .. p - 1
    BY <1>2, <1>5, <1>8, PresentIs DEF Reached
  <2> QED BY <1>6, <1>7, <2>1 DEF Passed
<1>11. Max(Present) \in Reached => Max(Present) = p
  <2>1. PICK top \in Present : \A i \in Present : i <= top
    <3>1. \E n \in Nat : \A i \in Present : i <= n
      BY <1>2, PresentIs DEF IsArchive, Items
    <3> QED BY <1>5, <1>2, <3>1, PresentIs, MaxNat
  <2>2. Max(Present) = top /\ p <= top
    BY <1>2, <1>5, <2>1, LastPresent
  <2>3. p \in Nat /\ top \in Nat
    BY <1>2, <1>5, PresentIs
  <2>4. top \in Reached => top <= p
    BY <1>8
  <2> QED BY <2>2, <2>3, <2>4
<1>12. Extracted(extracted', cpio_rc')
  BY <1>2, <1>5, <1>7, <1>9, <1>10, <1>11 DEF Extracted
<1> QED BY <1>2, <1>12, CpioFrame DEF Running

\* The next item is damaged or cut, or the last zeros are cut inside a word.
LEMMA FailStep ==
  ASSUME CpioInv, BadOrTruncated
  PROVE  CpioInv'
<1>1. /\ cpio_rc = Running /\ cpio_len # 0
      /\ cpio_len < 4 \/ HeadersAt(cpio_data) # {}
      /\ \/ cpio_len < CpioHeaderLen
         \/ \E member \in HeadersAt(cpio_data) : ~member.magic \/ StepLen(member) > cpio_len
      /\ IsArchive(archive) /\ Reading(cpio_data, cpio_len, extracted)
      /\ UNCHANGED <<archive, extracted>> /\ cpio_rc' = -1
  BY DEF BadOrTruncated, AtHeader, InHeader, CpioInv, Return
<1>2. cpio_data \in Nat /\ cpio_len \in Nat /\ cpio_data + cpio_len = archive.len
  BY <1>1 DEF Reading
<1>3. PICK p \in 1 .. Len(Items) + 1 : ReadUpTo(p, cpio_data, cpio_len, extracted)
  BY <1>1 DEF Reading
<1>4. /\ p \in Present /\ p \in 1 .. Len(Items) /\ StartOf(p) <= cpio_data
      /\ cpio_data < ItemEnd(p) /\ cpio_data % 4 = 0
      /\ HeadersAt(cpio_data) = IF IsMember(Items[p]) THEN {Items[p]} ELSE {}
      /\ IsMember(Items[p]) => StartOf(p) = cpio_data
  BY <1>1, <1>2, <1>3, NextItem
<1>5. /\ Passed(p) /\ Len(extracted) = Cardinality(TakenBefore(p))
      /\ \A i \in TakenBefore(p) : extracted[Position(i)] = Items[i].name
  BY <1>3 DEF ReadUpTo
<1>6. p \in Reached
  BY <1>1, <1>4, <1>5, NextReached
<1>7. CASE IsMember(Items[p])
  <2>1. PICK m \in Nat, h \in Nat, a \in Nat, c \in Nat :
          /\ m = MemberLen(Items[p]) /\ h = CpioHeaderLen /\ h <= m /\ a = cpio_align(m)
          /\ m <= a /\ c = cpio_len
    BY <1>1, <1>2, <1>4, <1>7, ItemEnds, CpioAssumption
  <2>2. StepLen(Items[p]) = IF m < c THEN a ELSE m
    BY <2>1 DEF StepLen
  <2>3. ~(Items[p].magic /\ StepLen(Items[p]) <= cpio_len)
    <3>1. CASE c < h
      <4>1. ~((IF m < c THEN a ELSE m) <= c)
        BY <2>1, <3>1
      <4> QED BY <2>1, <2>2, <4>1
    <3>2. CASE ~(c < h)
      <4>1. ~Items[p].magic \/ StepLen(Items[p]) > cpio_len
        BY <1>1, <1>4, <1>7, <2>1, <3>2
      <4>2. PICK s \in Nat : s = StepLen(Items[p])
        BY <2>1, <2>2
      <4>3. ~(s > c) \/ ~(s <= c)
        OBVIOUS
      <4> QED BY <2>1, <4>1, <4>2, <4>3
    <3> QED BY <3>1, <3>2
  <2>4. ~Sound(p)
    BY <1>1, <1>2, <1>4, <1>7, <2>3, SoundIs
  <2>5. TakenBefore(p) = Taken
    BY <1>1, <1>4, <1>5, <2>4, NextReached, LastTaken
  <2>6. Extracted(extracted', cpio_rc')
    BY <1>1, <1>4, <1>5, <1>6, <2>4, <2>5 DEF Extracted
  <2> QED BY <1>1, <2>6, CpioFrame DEF Running
<1>8. CASE ~IsMember(Items[p])
  <2>1. cpio_len < 4
    BY <1>1, <1>4, <1>8
  <2>2. PICK e \in Nat : e = ItemEnd(p) /\ e % 4 = 0
    BY <1>1, <1>4, ItemSpan
  <2>3. archive.len < e /\ archive.len % 4 # 0
    <3>0. PICK d \in Nat, c \in Nat :
            d = cpio_data /\ c = cpio_len /\ d + c = archive.len /\ d % 4 = 0
      BY <1>2, <1>4
    <3>1. PICK a \in Int, b \in Int : d = 4 * a /\ e = 4 * b
      BY <2>2, <3>0
    <3>2. a < b /\ 0 < c /\ c < 4
      BY <1>1, <1>4, <2>1, <2>2, <3>0, <3>1
    <3>3. 4 * a + c < 4 * b /\ (4 * a + c) % 4 # 0
      BY <3>2
    <3> QED BY <3>0, <3>1, <3>3
  <2>4. ASSUME NEW i \in Present PROVE i <= p
    <3>1. i \in 1 .. Len(Items) /\ StartOf(i) < archive.len /\ StartOf(i) \in Nat
      BY <1>1, PresentIs, ItemSpan
    <3>2. p < i => e <= StartOf(i)
      BY <1>1, <1>4, <2>2, <3>1, StartsAscend
    <3>3. archive.len \in Nat
      BY <1>1 DEF IsArchive
    <3> QED BY <1>4, <2>3, <3>1, <3>2, <3>3
  <2>5. Max(Present) = p
    BY <1>1, <1>4, <2>4, LastPresent
  <2>6. TakenBefore(p) = Taken
    <3>1. \A i \in Reached : i <= p
      BY <2>4 DEF Reached
    <3> QED BY <1>1, <1>4, <1>5, <1>8, <3>1, LastTaken
  <2>7. Extracted(extracted', cpio_rc')
    BY <1>1, <1>4, <1>5, <1>6, <1>8, <2>3, <2>5, <2>6 DEF Extracted
  <2> QED BY <1>1, <2>7, CpioFrame DEF Running
<1> QED BY <1>7, <1>8

LEMMA CpioUnchanged ==
  ASSUME CpioInv, UNCHANGED cpioVars
  PROVE  CpioInv'
BY CpioFrame DEF CpioInv, cpioVars

LEMMA CpioStep == CpioInv /\ (CpioNext \/ UNCHANGED cpioVars) => CpioInv'
BY SkipPaddingStep, EndStep, FailStep, TrailerStep, ExtractStep, CpioUnchanged DEF CpioNext

LEMMA CpioInvGives == CpioInv => MembersExtracted
BY DEF CpioInv, MembersExtracted, Extracted

\* The archive is read in its own steps alone.
LEMMA CpioPart == BootNext => CpioNext \/ UNCHANGED cpioVars
<1> SUFFICES ASSUME BootNext PROVE CpioNext \/ UNCHANGED cpioVars
  OBVIOUS
<1>1. CASE main
  <2>1. CASE AddFile
    BY <2>1 DEF AddFile, add_file, CpioNext
  <2>2. CASE CpioExtract
    BY <2>2 DEF CpioExtract, CpioNext
  <2>3. CASE ~AddFile /\ ~CpioExtract
    BY <1>1, <2>3 DEF main, ProcessCmdline, InitPaging, EnablePaging, RelocateLow,
              ProcessWim, InitialiseInt13, ReadPe, load_pe, load_pe_header, load_pe_section,
              load_pe_raw, loadUnchanged, load_pe_fails, RelocateHigh, Describe, EnterBootmgr
  <2> QED BY <2>1, <2>2, <2>3
<1>2. CASE call_interrupt_wrapper
  <2>1. CASE WrapperInt13 \/ EmulateInt13
    BY <2>1 DEF WrapperInt13, EmulateInt13
  <2>2. CASE CallReal \/ WrapperReturns
    BY <2>2 DEF CallReal, WrapperReturns
  <2>3. CASE ReturnFromReal
    BY <2>3, SMTT(30) DEF ReturnFromReal
  <2> QED BY <1>2, <2>1, <2>2, <2>3 DEF call_interrupt_wrapper
<1>3. CASE UseMemory \/ CountDrives \/ MakeCall \/ BootmgrReturns
  BY <1>3 DEF UseMemory, CountDrives, MakeCall, Call, BootmgrReturns
<1> QED BY <1>1, <1>2, <1>3 DEF BootNext

LEMMA CpioAlways == BootSpec => []CpioInv
<1>1. BootInit => CpioInv
  BY ReadingInit DEF BootInit
<1>2. CpioInv /\ [BootNext]_vars => CpioInv'
  BY CpioPart, CpioStep DEF vars
<1> QED BY <1>1, <1>2, PTL DEF BootSpec

\* Of every archive, wherever it is cut and whatever is between its members, cpio_extract
\* calls the handler for the members that are wholly there and no others, in their order,
\* and it fails exactly if the archive is damaged before its trailer.
THEOREM MembersAreExtracted == BootSpec => []MembersExtracted
BY CpioAlways, CpioInvGives, PTL
=============================================================================
