CHECK_DEADLOCK FALSE
CONSTANTS
  None = None
  rtx = rtx
  voodoo = voodoo
  mi300x = mi300x
  apple = apple
  amd = amd
  U16Max = 100
  U32 = 256
  DefaultRam = 16
  Numbers <- MCNumbers
  Gpus <- MCGpus
  GpuTable <- MCGpuTable
  UseCases <- MCUseCases
  a = a
  b = b
  c = c
  d = d
  LineMax = 2
  Argument <- MCArguments
  MaxArgs = 3
  MaxLines = 2
  Rams <- MCRams
  LargeRam = 16
  Cards <- MCCards
  Traits <- MCTraits
  AppleChip = apple
  AmdGpu = amd
  Glyphs <- MCGlyphs
  Meaning <- MCMeaning
SPECIFICATION ShellsSpec
INVARIANTS SameAnswers
