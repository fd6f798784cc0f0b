SPECIFICATION Spec
CONSTANTS
  Scalar <- FieldScalar
  Arith <- FieldArith
  SomeVectors <- MCVectors
  SomeMatrices <- MCMatrices
  SomeQuaternions <- MCQuaternions
  SomeScalars <- MCScalars
  Angles <- MCAngles
  Axes <- MCAxes
  Cameras <- MCCameras
  Boxes <- MCBoxes
  MaxCalls = 2
INVARIANTS
  Agree
  
  MatrixLaws
  QuaternionsTurn
PROPERTIES
  TransformsCompose
  ProjectionsFill
