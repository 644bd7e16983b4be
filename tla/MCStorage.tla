----------------------------- MODULE MCStorage -----------------------------
(* A small instance of StorageSetup: two services and the plans they share.*)
EXTENDS StorageSetup

CONSTANTS s1, s2

Hour == FixedInterval(4)
Week == FixedInterval(8)

ByV == OrderBy(SegmentBy(NewColumnstoreSettings, <<"v">>), <<"v", "t">>)

Convert ==
    <<Columnstore(HashDimension(MigrateExistingData(IfNotExists(NewHypertable)), "v", 2), ByV),
      SetChunkInterval(Week), IfNotExists(NewContinuousAggregate),
      SetRealTime(TRUE), EnableContinuousAggregateColumnstore(NewColumnstoreSettings)>>

CreateNew ==
    <<HashDimension(IfNotExists(ChunkInterval(NewHypertableTable, Hour)), "v", 2),
      RealTime(IfNotExists(NewContinuousAggregate)), SetRealTime(FALSE)>>

(* The aggregate is made anew, the columnstore is turned off.              *)
Redefine ==
    <<Columnstore(MigrateExistingData(IfNotExists(NewHypertable)), ByV),
      DisableHypertableColumnstore,
      DropAggregate(TRUE), IfNotExists(NewContinuousAggregate)>>

(* Calls that cannot be repeated, or that BuildSQL refuses.                *)
Strict ==
    <<HashDimension(NewHypertable, "v", 2), EnableHypertableColumnstore(ByV), NewContinuousAggregate>>
Invalid == <<IfNotExists(NewHypertable), SetChunkInterval(FixedInterval(3))>>
NoPartitions == <<HashDimension(NewHypertableTable, "v", 0)>>
NoColumn == <<HashDimension(NewHypertableTable, "", 2)>>
Twice ==
    <<IfNotExists(NewHypertable),
      EnableHypertableColumnstore(SegmentBy(NewColumnstoreSettings, <<"v", "v">>))>>

SomePlans == {Convert, CreateNew, Redefine, Strict, Invalid, NoPartitions, NoColumn, Twice}
=============================================================================
