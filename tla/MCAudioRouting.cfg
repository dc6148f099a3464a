SPECIFICATION Spec
CONSTANT Setups <- AllSetups
INVARIANTS Consistent InputsShareDevice CallsInPlace
