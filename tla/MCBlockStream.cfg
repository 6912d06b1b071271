SPECIFICATION Spec
CONSTANT BodyLengths <- MCBodyLengths
INVARIANTS TypeOK ReceiverHoldsBody OnlyEmptyRefused WireSizes
