SPECIFICATION Spec
CONSTANTS
  Left <- AnyLeft
  Asked <- AnyAsked
  Descriptors = {0, 3}
INVARIANTS
  TypeOK
  FramingAsAsked
  OldBytesFlushed
  DescriptorsHeld
