---------------------------- MODULE MCDiscovery ----------------------------
(* Attribute tables for Discovery.                                         *)
EXTENDS Discovery, TLC

MCMaxHandle == 13

Primary(start, end, layout) ==
  [start |-> start, end |-> end, primary |-> TRUE, target |-> 0, layout |-> layout]

GattService == Primary(1, 4, <<"svc", "chr", "scv", "dsc">>)

\* The DFU service: a characteristic with a descriptor and one without.
DfuService(end) == Primary(5, end, <<"svc", "chr", "val", "dsc", "chr", "val">>)

\* A handle without an attribute, behind the value of a characteristic.
Gapped == Primary(5, 10, <<"svc", "chr", "val", "gap", "chr", "val">>)

OneHandle == Primary(5, 5, <<"svc">>)
Plain(end) == Primary(6, end, <<"svc", "chr", "val">>)
Secondary  == [Primary(9, 12, <<"svc", "chr", "val", "dsc">>) EXCEPT !.primary = FALSE]
Including  == [Primary(6, 8, <<"svc", "inc">>) EXCEPT !.target = 9]

\* Devices without Service Changed, the second with a gap before the last service; the
\* bootloader's service alone, or with another behind it; a service with a gap; a secondary
\* service; it included, next to a service of one handle; and services in the place of it
\* that end where it ends, and behind it.
MCTables ==
  {{DfuService(10)},
   {Gapped, Primary(11, MCMaxHandle, <<"svc", "chr", "val">>)},
   {GattService, DfuService(MCMaxHandle)},
   {GattService, DfuService(11), Primary(12, MCMaxHandle, <<"svc">>)},
   {GattService, Gapped},
   {GattService, Plain(8), Secondary},
   {GattService, OneHandle, Including, Secondary},
   {GattService, OneHandle, Plain(12)},
   {GattService, OneHandle, Plain(MCMaxHandle)}}
=============================================================================
