CONSTANTS
  PGSIZE = 2
  BSIZE = 2
  NDIRECT = 4
  NINDIRECT = 4
  NPROC = 7
  NOFILE = 8
  NFILE = 9
  NINODE = 12
  NBLOCKS = 24
  MAXCHUNK = 4
  PIPESIZE = 2
  NPAGES = 44
  OVERHEAD = 1
  MAXARG = 4
  Names <- FourteenBytes
  Executables <- Programs
  Program <- Loaded
  FirstInodes <- FirstDisk
  Mains <- MainsToRun
SPECIFICATION Spec
INVARIANTS TestsPass SomebodyGoesOn NamesSound WithinMeans
