SPECIFICATION Spec
CONSTANT Builds <- MCSkewed
INVARIANT OneLeafPerRootCluster
