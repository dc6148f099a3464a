SPECIFICATION Spec
CONSTANT Setups <- AllSetups
INVARIANT OutputsShareDevice
