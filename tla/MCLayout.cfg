SPECIFICATION FrontSpec
CONSTANT Inputs <- MCInputs
INVARIANT LayoutSound
