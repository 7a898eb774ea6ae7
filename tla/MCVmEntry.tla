----------------------------- MODULE MCVmEntry -----------------------------
(***************************************************************************)
(* Instances of VmEntry for TLC, with small units: a page has 16 bytes, a  *)
(* limit 8 + 4 bits, the lower half of an address 9 bits and a GDT at most *)
(* 10 entries.                                                             *)
(***************************************************************************)
EXTENDS VmEntry, Sequences

User(d) == [d EXCEPT !.privilege_level = 3]

Flat == 16 * LimitLow - 1
Code == basic_value(Descriptor(Flat, 0, 11, FALSE, TRUE, TRUE))
Data == basic_value(Descriptor(Flat, 0, data_read_write_accessed, FALSE, FALSE, TRUE))
Bytes(base, limit) ==
    basic_value(User(Descriptor(limit, base, data_read_write_accessed, FALSE, FALSE, FALSE)))
SystemSegment(base, type) == Descriptor(103, base, type, TRUE, FALSE, FALSE)

\* A GDT from the sequence of its entries.
Gdt(entries) == [k \in 0 .. Len(entries) - 1 |-> entries[k + 1]]

Selectors(cs, ss, data, fs, gs, tr, ldtr) ==
    [cs |-> cs, ss |-> ss, ds |-> data, es |-> data, fs |-> fs, gs |-> gs,
     tr |-> tr, ldtr |-> ldtr]

Tss == SystemSegment(3 * Half + 64, tss_busy)
Ldt == SystemSegment(5 * Half + 32, ldt)

\* Null data segments, FS and GS bases that no descriptor has.
Linux ==
    [gdt |-> Gdt(<<Zero, Code, Data, basic_value(Tss), extended_value(Tss)>>),
     selector |-> Selectors(8, 16, 0, 0, 0, 24, 0),
     fs_base |-> 2 * Half + 7, gs_base |-> 4 * Half + 1, cr |-> {"pe", "pg", "ne", "pae"}]

\* User data segments, an FS segment of some bytes, an LDT.
Windows ==
    [gdt |-> Gdt(<<Zero, Code, Data, User(Data), Bytes(77, 60), basic_value(Tss),
                   extended_value(Tss), basic_value(Ldt), extended_value(Ldt)>>),
     selector |-> Selectors(8, 16, 27, 35, 27, 40, 56),
     fs_base |-> 77, gs_base |-> 4 * Half + 2, cr |-> {"pe", "pg", "ne", "pae", "smep"}]

\* Firmware: no TSS.  Its GDT leaves room for one, or just so, or does not.
Firmware(n) ==
    [gdt |-> Gdt([k \in 1 .. n |-> IF k = n THEN Code ELSE IF k = 2 THEN Data ELSE Zero]),
     selector |-> Selectors(8 * (n - 1), 8, 8, 8, 8, 0, 0),
     fs_base |-> 0, gs_base |-> 0, cr |-> {"pe", "pg", "pae"}]

Systems ==
    {Linux, Windows, Firmware(4), Firmware(GdtEntries - 2), Firmware(GdtEntries)}

Control(low, high) == [low |-> low, high |-> low \cup high]

Recent ==
    [msrs |-> VmxMsrs, drops |-> TRUE,
     pin |-> Control({"reserved"}, {"external_interrupt_exiting"}),
     primary |-> Control({"reserved"}, {"enable_secondary_controls", "enable_msr_bitmaps",
                                        "hlt_exiting", "unconditional_io_exiting"}),
     secondary |-> Control({}, {"enable_ept", "enable_vpid", "enable_rdtscp", "enable_invpcid",
                                "enable_xsaves_xrstors", "mode_based_execute_control"}),
     exit |-> Control({"reserved"}, {"host_address_space_size", "save_debug_controls"}),
     entry |-> Control({"reserved"}, {"ia_32e_mode_guest", "load_debug_controls"}),
     cr |-> [fixed_0 |-> {"pe", "pg", "ne", "vmxe"},
             fixed_1 |-> {"pe", "pg", "ne", "vmxe", "pae", "smep"}]]

\* No mode based execution, and none of the newer instructions.
Older == [Recent EXCEPT !.secondary = Control({}, {"enable_ept", "enable_vpid"})]

\* No secondary controls take effect.
Oldest == [Recent EXCEPT !.primary = Control({"reserved"}, {"enable_msr_bitmaps"})]

Machines ==
    {Recent, Older, Oldest,
     [Recent EXCEPT !.drops = FALSE],
     [Recent EXCEPT !.msrs = @ \ {"vm_functions"}],
     [Recent EXCEPT !.exit.low = @ \cup {"save_debug_controls"},
                    !.entry.low = @ \cup {"load_debug_controls"}]}

=============================================================================
