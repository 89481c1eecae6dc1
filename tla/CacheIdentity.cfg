CONSTANTS
  Nil = Nil
  Undefined = Undefined
  Characters <- MCCharacters
  Namespaces <- MCNamespaces
  KeyTypes <- MCKeyTypes
  Ids <- MCIds
  UseCases <- MCUseCases
  ArgLists <- MCArgLists
  Texts <- MCTexts
  Reserved <- MCReserved
SPECIFICATION Spec
INVARIANTS KeysIdentify WatermarksGuard OneWrapperEach
CHECK_DEADLOCK FALSE
