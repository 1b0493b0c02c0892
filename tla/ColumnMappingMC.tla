-------------------------- MODULE ColumnMappingMC --------------------------
EXTENDS ColumnMapping, TLC

CONSTANTS a, b, x

\* Both columns resemble one name, and one of them is surer.
BothAlike == a :> x @@ b :> x
ASurer    == a :> 2 @@ b :> 1

\* One tab is like another.
TabsAlike == Permutations(Tabs)
=============================================================================
